---- MODULE Spec2Model ----
(***************************************************************************)
(* Sudoxu: the hexadecimal sudoku engine (utils/gameLogic.js).             *)
(*                                                                         *)
(* The engine works on a 16x16 grid with 4x4 sub-grids.  Every operator    *)
(* below takes the side of the grid from the board it is given, so the     *)
(* same definitions describe the 16x16 game and the reduced grids the      *)
(* exhaustive checks run on: a board of side n has sub-grids of side       *)
(* sqrt(n) and uses the first n symbols of HEX_VALUES.  With n = 16 every  *)
(* operator is the code as written.                                        *)
(***************************************************************************)
EXTENDS Integers, Sequences, FiniteSets, TLC

\* Side of a sub-grid of the boards that are explored (4 in the game).
BOX == 2

HEX_VALUES == <<"0", "1", "2", "3", "4", "5", "6", "7",
                "8", "9", "A", "B", "C", "D", "E", "F">>

\* JavaScript's null: the content of an empty cell.
null == "null"

(***************************************************************************)
(* Boards.  board[row][col] with row, col in 0..n-1, as in the code.       *)
(***************************************************************************)
Size(board) == Cardinality(DOMAIN board)

SubGridSize(n) == CHOOSE b \in 1..n : b * b = n

HexValues(n) == [i \in 1..n |-> HEX_VALUES[i]]

Symbols(n) == {HEX_VALUES[i] : i \in 1..n}

Cells(n) == (0..(n - 1)) \X (0..(n - 1))

\* Array(16).fill(null).map(() => Array(16).fill(null))
EmptyBoard(n) == [row \in 0..(n - 1) |-> [col \in 0..(n - 1) |-> null]]

\* board[row][col] = value on a board that is otherwise left alone
SetCell(board, row, col, value) ==
    [board EXCEPT ![row] = [@ EXCEPT ![col] = value]]

EmptyCells(board) == {rc \in Cells(Size(board)) : board[rc[1]][rc[2]] = null}

\* the first empty cell in row-major order, as the nested for loops find it
FirstEmptyCell(board) ==
    LET n == Size(board)
        k == CHOOSE k \in 0..(n * n - 1) :
                /\ board[k \div n][k % n] = null
                /\ \A j \in 0..(k - 1) : board[j \div n][j % n] # null
    IN  <<k \div n, k % n>>

(***************************************************************************)
(* Constraint validator.                                                   *)
(***************************************************************************)
\* isValidMove without the "c !== col", "r !== row" exclusions of the cell itself
isValidMoveCountingSelf(board, row, col, value) ==
    LET n == Size(board)
        b == SubGridSize(n)
        subGridRow == (row \div b) * b
        subGridCol == (col \div b) * b
    IN  /\ \A c \in 0..(n - 1) : board[row][c] # value
        /\ \A r \in 0..(n - 1) : board[r][col] # value
        /\ \A r \in subGridRow..(subGridRow + b - 1) :
             \A c \in subGridCol..(subGridCol + b - 1) : board[r][c] # value

\* isValidMove without the sub-grid loop
isValidMoveNoSubGrid(board, row, col, value) ==
    LET n == Size(board)
    IN  /\ \A c \in 0..(n - 1) : ~(c # col /\ board[row][c] = value)
        /\ \A r \in 0..(n - 1) : ~(r # row /\ board[r][col] = value)

isValidMove(board, row, col, value) ==
    LET n == Size(board)
        b == SubGridSize(n)
        subGridRow == (row \div b) * b
        subGridCol == (col \div b) * b
    IN  /\ \A c \in 0..(n - 1) : ~(c # col /\ board[row][c] = value)
        /\ \A r \in 0..(n - 1) : ~(r # row /\ board[r][col] = value)
        /\ \A r \in subGridRow..(subGridRow + b - 1) :
             \A c \in subGridCol..(subGridCol + b - 1) :
                ~((r # row \/ c # col) /\ board[r][c] = value)

\* the concatenation pushes[lo] \o ... \o pushes[hi]: what a for loop pushes
RECURSIVE Pushed(_, _, _)
Pushed(pushes, lo, hi) ==
    IF lo > hi THEN <<>> ELSE pushes[lo] \o Pushed(pushes, lo + 1, hi)

\* conflicts.filter((conflict, index, self) => index === self.findIndex(...))
RECURSIVE FilterFirst(_, _)
FilterFirst(self, index) ==
    IF index > Len(self) THEN <<>>
    ELSE (IF \A j \in 1..(index - 1) : self[j] # self[index]
          THEN <<self[index]>> ELSE <<>>) \o FilterFirst(self, index + 1)

\* the conflicts array before the filter: every hit pushes the other cell and
\* then the cell itself
pushedConflicts(board, row, col) ==
    LET n == Size(board)
        b == SubGridSize(n)
        value == board[row][col]
        subGridRow == (row \div b) * b
        subGridCol == (col \div b) * b
        rowPushes == [c \in 0..(n - 1) |->
            IF c # col /\ board[row][c] = value
            THEN << <<row, c>>, <<row, col>> >> ELSE <<>>]
        colPushes == [r \in 0..(n - 1) |->
            IF r # row /\ board[r][col] = value
            THEN << <<r, col>>, <<row, col>> >> ELSE <<>>]
        \* k enumerates the sub-grid as the nested loops do: r outer, c inner
        subPushes == [k \in 0..(b * b - 1) |->
            LET r == subGridRow + (k \div b)
                c == subGridCol + (k % b)
            IN  IF (r # row \/ c # col) /\ board[r][c] = value
                THEN << <<r, c>>, <<row, col>> >> ELSE <<>>]
    IN  Pushed(rowPushes, 0, n - 1)
        \o Pushed(colPushes, 0, n - 1)
        \o Pushed(subPushes, 0, b * b - 1)

\* getConflicts without the final filter
getConflictsUnfiltered(board, row, col) ==
    IF board[row][col] = null THEN <<>> ELSE pushedConflicts(board, row, col)

\* getConflicts that pushes only the other cell of every hit
getConflictsOthersOnly(board, row, col) ==
    IF board[row][col] = null THEN <<>>
    ELSE FilterFirst(SelectSeq(pushedConflicts(board, row, col),
                               LAMBDA conflict : conflict # <<row, col>>), 1)

\* getConflicts without the exclusions of the cell itself: the cell hits itself
getConflictsCountingSelf(board, row, col) ==
    IF board[row][col] = null THEN <<>>
    ELSE FilterFirst(<< <<row, col>> >> \o pushedConflicts(board, row, col), 1)

getConflicts(board, row, col) ==
    IF board[row][col] = null THEN <<>>
    ELSE FilterFirst(pushedConflicts(board, row, col), 1)

\* isSolved without the second pair of loops
isSolvedFilledOnly(board) ==
    \A rc \in Cells(Size(board)) : board[rc[1]][rc[2]] # null

isSolved(board) ==
    /\ \A rc \in Cells(Size(board)) : board[rc[1]][rc[2]] # null
    /\ \A rc \in Cells(Size(board)) : Len(getConflicts(board, rc[1], rc[2])) = 0

(***************************************************************************)
(* Deterministic solver and the solution counters.  The code mutates one   *)
(* working board and a counter through the recursion; the operators pass   *)
(* both along and return them.                                             *)
(***************************************************************************)
\* solve() of solvePuzzle: [ok |-> it returned true, board |-> the board after]
RECURSIVE solve(_)
RECURSIVE solveValues(_, _, _, _)
solve(solution) ==
    IF EmptyCells(solution) = {} THEN [ok |-> TRUE, board |-> solution]
    ELSE LET rc == FirstEmptyCell(solution)
         IN  solveValues(solution, rc[1], rc[2], 1)

\* the loop "for (const value of HEX_VALUES)" from the i-th value on
solveValues(solution, row, col, i) ==
    IF i > Size(solution) THEN [ok |-> FALSE, board |-> solution]
    ELSE LET value == HEX_VALUES[i]
         IN  IF isValidMove(solution, row, col, value)
             THEN LET sub == solve(SetCell(solution, row, col, value))
                  IN  IF sub.ok THEN sub
                      ELSE solveValues(solution, row, col, i + 1)
             ELSE solveValues(solution, row, col, i + 1)

solvePuzzle(board) ==
    LET solved == solve(board)
    IN  IF solved.ok THEN solved.board ELSE null

\* solveBrute() of countSolutions: [ok |-> it returned true,
\* count |-> solutionCount after it, board |-> workingBoard after it]
RECURSIVE solveBrute(_, _, _)
RECURSIVE solveBruteValues(_, _, _, _, _, _)
solveBrute(workingBoard, solutionCount, maxSolutions) ==
    IF EmptyCells(workingBoard) = {}
    THEN [ok |-> TRUE, count |-> solutionCount, board |-> workingBoard]
    ELSE LET rc == FirstEmptyCell(workingBoard)
         IN  solveBruteValues(workingBoard, rc[1], rc[2], 1,
                              solutionCount, maxSolutions)

solveBruteValues(workingBoard, row, col, i, solutionCount, maxSolutions) ==
    IF i > Size(workingBoard)
    THEN [ok |-> FALSE, count |-> solutionCount, board |-> workingBoard]
    ELSE LET value == HEX_VALUES[i]
         IN  IF isValidMove(workingBoard, row, col, value)
             THEN LET sub == solveBrute(SetCell(workingBoard, row, col, value),
                                        solutionCount, maxSolutions)
                      counted == IF sub.ok THEN sub.count + 1 ELSE sub.count
                  IN  IF sub.ok /\ counted >= maxSolutions
                      THEN [ok |-> TRUE, count |-> counted, board |-> sub.board]
                      ELSE solveBruteValues(workingBoard, row, col, i + 1,
                                            counted, maxSolutions)
             ELSE solveBruteValues(workingBoard, row, col, i + 1,
                                   solutionCount, maxSolutions)

countSolutions(board, maxSolutions) ==
    solveBrute(board, 0, maxSolutions).count

\* hasUniqueSolution with ">= 1" for "=== 1"
hasUniqueSolutionAtLeastOne(board) == countSolutions(board, 2) >= 1

hasUniqueSolution(board) == countSolutions(board, 2) = 1

\* solveBrute(depth) of countSolutionsLimited
RECURSIVE solveBruteLimited(_, _, _, _, _)
RECURSIVE solveBruteLimitedValues(_, _, _, _, _, _, _, _)
solveBruteLimited(workingBoard, solutionCount, maxSolutions, maxDepth, depth) ==
    IF depth >= maxDepth
    THEN [ok |-> TRUE, count |-> solutionCount, board |-> workingBoard]
    ELSE IF EmptyCells(workingBoard) = {}
    THEN [ok |-> TRUE, count |-> solutionCount, board |-> workingBoard]
    ELSE LET rc == FirstEmptyCell(workingBoard)
         IN  solveBruteLimitedValues(workingBoard, rc[1], rc[2], 1,
                                     solutionCount, maxSolutions, maxDepth, depth)

solveBruteLimitedValues(workingBoard, row, col, i, solutionCount, maxSolutions, maxDepth, depth) ==
    IF i > Size(workingBoard)
    THEN [ok |-> FALSE, count |-> solutionCount, board |-> workingBoard]
    ELSE LET value == HEX_VALUES[i]
         IN  IF isValidMove(workingBoard, row, col, value)
             THEN LET sub == solveBruteLimited(
                                 SetCell(workingBoard, row, col, value),
                                 solutionCount, maxSolutions, maxDepth, depth + 1)
                      counted == IF sub.ok THEN sub.count + 1 ELSE sub.count
                  IN  IF sub.ok /\ counted >= maxSolutions
                      THEN [ok |-> TRUE, count |-> counted, board |-> sub.board]
                      ELSE solveBruteLimitedValues(workingBoard, row, col, i + 1,
                                   counted, maxSolutions, maxDepth, depth)
             ELSE solveBruteLimitedValues(workingBoard, row, col, i + 1,
                          solutionCount, maxSolutions, maxDepth, depth)

\* countSolutionsLimited whose search stops one level early
countSolutionsLimitedShallow(board, maxSolutions, maxDepth, currentDepth) ==
    IF currentDepth >= maxDepth THEN 1
    ELSE solveBruteLimited(board, 0, maxSolutions, maxDepth - 1, currentDepth).count

countSolutionsLimited(board, maxSolutions, maxDepth, currentDepth) ==
    IF currentDepth >= maxDepth THEN 1
    ELSE solveBruteLimited(board, 0, maxSolutions, maxDepth, currentDepth).count

(***************************************************************************)
(* Fallback construction of generateSolvedBoard.                           *)
(***************************************************************************)
\* Passes of the repair loop of fixBoardConflicts.
maxRepairAttempts == 1000

\* one cell of a repair pass: [board, hasConflict] after the cell's iteration
fixCell(board, row, col) ==
    LET n == Size(board)
        originalValue == board[row][col]
        cleared == SetCell(board, row, col, null)
        valid == {i \in 1..n : isValidMove(cleared, row, col, HEX_VALUES[i])}
        first == CHOOSE i \in valid : \A j \in valid : i <= j
    IN  IF Len(getConflicts(board, row, col)) > 0
        THEN [board |-> IF valid # {}
                        THEN SetCell(board, row, col, HEX_VALUES[first])
                        ELSE SetCell(board, row, col, originalValue),
              hasConflict |-> TRUE]
        ELSE [board |-> board, hasConflict |-> FALSE]

\* the two nested for loops of one pass, from cell k (row-major) on
RECURSIVE fixPass(_, _, _)
fixPass(board, hasConflict, k) ==
    LET n == Size(board)
        step == fixCell(board, k \div n, k % n)
    IN  IF k >= n * n THEN [board |-> board, hasConflict |-> hasConflict]
        ELSE fixPass(step.board, hasConflict \/ step.hasConflict, k + 1)

RECURSIVE fixBoardConflictsFrom(_, _)
fixBoardConflictsFrom(board, attempts) ==
    IF attempts < maxRepairAttempts
    THEN LET pass == fixPass(board, FALSE, 0)
         IN  IF ~pass.hasConflict THEN pass.board
             ELSE fixBoardConflictsFrom(pass.board, attempts + 1)
    ELSE board

fixBoardConflicts(board) == fixBoardConflictsFrom(board, 0)

\* Row 0 holds the symbols in order; row >= 1 shifts by one sub-grid side per
\* row plus one more per sub-grid row (4 and 0, 4, 8, 12 on the 16x16 board).
offsetPattern(n) ==
    LET b == SubGridSize(n)
        valueIndex(row, col) ==
            IF row = 0 THEN col
            ELSE (col + row * b + (row \div b) * b) % n
    IN  [row \in 0..(n - 1) |->
            [col \in 0..(n - 1) |-> HEX_VALUES[valueIndex(row, col) + 1]]]

createValidPattern(n) == fixBoardConflicts(offsetPattern(n))

(***************************************************************************)
(* State.                                                                  *)
(***************************************************************************)
VARIABLES
    pc,          \* the function that is running, or what the last one returned
    board,       \* generateSolvedBoard: the board solveBoardRecursive fills
    stack,       \* solveBoardRecursive: the active calls, innermost last
    result,      \* the value the finished call returned
    difficulty,  \* generatePuzzle: its argument
    solution,    \* generatePuzzle: the solved board
    puzzle,      \* generatePuzzle: the copy that is carved
    removedCells,    \* generateOptimizedUniquePuzzle: cells removed so far
    symmetricPairs,  \* performSymmetricRemoval: the pairs not yet walked
    cellPriorities,  \* performGuidedRemoval: the cells not yet walked
    guidedRemoved,   \* performGuidedRemoval: its own removedCells
    attempts,        \* performGuidedRemoval, restoreForUniqueness: attempts
    callBoard,   \* a call of an exported function: the board passed to it
    args,        \* ... and its other arguments
    edits,       \* cells the caller has set or cleared in the board it got
    heap,        \* the row arrays that exist: heap[id] is the array with this id
    boardRef,    \* the board object a call was given, or generatePuzzle's puzzle
    solutionRef, \* the solution object of getHint and of generatePuzzle
    appBoard,        \* App: its state board, the board the player fills
    initialBoard,    \* App: the puzzle as the game started with it
    selectedCell,    \* App: [row, col] of the selected cell, or null
    gameState,       \* App: 'menu', 'playing' or 'won'
    comboTimer,      \* App: milliseconds the combo still runs
    comboMultiplier, \* App: successful moves of the running combo
    comboScore,      \* App: points of the running combo
    totalScore,      \* App: points of the game
    timeouts,        \* App: the finalScore of each setTimeout callback not yet run
    winData,         \* App: what the win modal shows
    showWinModal     \* App: whether the win modal is visible

solverVars == <<board, stack>>
carveVars == <<removedCells, symmetricPairs, cellPriorities, guidedRemoved, attempts>>
puzzleVars == <<difficulty, solution, puzzle>>
objectVars == <<heap, boardRef, solutionRef>>
callVars == <<callBoard, args, edits, objectVars>>
scoreVars == <<comboTimer, comboMultiplier, comboScore, totalScore>>
modalVars == <<timeouts, winData, showWinModal>>
appVars == <<appBoard, initialBoard, selectedCell, gameState, scoreVars, modalVars>>
vars == <<pc, board, stack, result, difficulty, solution, puzzle, removedCells,
          symmetricPairs, cellPriorities, guidedRemoved, attempts, callBoard, args, edits,
          heap, boardRef, solutionRef, appBoard, initialBoard, selectedCell, gameState,
          comboTimer, comboMultiplier, comboScore, totalScore, timeouts, winData,
          showWinModal>>

\* Side of the boards explored.
N == BOX * BOX

\* The state of App when it is mounted: the initial values of its useState calls.
AppMounted ==
    /\ appBoard = null
    /\ initialBoard = null
    /\ selectedCell = null
    /\ gameState = "menu"
    /\ comboTimer = 0
    /\ comboMultiplier = 0
    /\ comboScore = 0
    /\ totalScore = 0
    /\ timeouts = <<>>
    /\ winData = [score |-> 0]
    /\ showWinModal = FALSE

(***************************************************************************)
(* generateSolvedBoard.  A call of solveBoardRecursive that finds an empty *)
(* cell is a frame [row, col, tried]: tried holds the values of its        *)
(* shuffled list it has placed so far.  The shuffle is any order of the    *)
(* symbols, so the next value placed is any valid value not yet tried;     *)
(* values that fail isValidMove change nothing wherever they come in the   *)
(* list.  The valid values of a frame are the same each time control is    *)
(* back in its loop, because every deeper cell has been cleared again.     *)
(***************************************************************************)
Frame(row, col) == [row |-> row, col |-> col, tried |-> {}]

Top == stack[Len(stack)]

\* Untried for a shuffled list that has lost its first symbol
UntriedWithoutFirst(b, frame) ==
    {value \in Symbols(Size(b)) \ (frame.tried \cup {HEX_VALUES[1]}) :
        isValidMove(SetCell(b, frame.row, frame.col, null),
                    frame.row, frame.col, value)}

Untried(b, frame) ==
    {value \in Symbols(Size(b)) \ frame.tried :
        isValidMove(SetCell(b, frame.row, frame.col, null),
                    frame.row, frame.col, value)}

\* if (isValidMove(...)) { board[row][col] = value; solveBoardRecursive(board)
\* The inner call either finds no empty cell and returns true, which every
\* caller passes on at once, or finds the next empty cell and starts its loop.
TryValue(value) ==
    /\ pc = "solveBoardRecursive"
    /\ value \in Untried(board, Top)
    /\ LET placed == SetCell(board, Top.row, Top.col, value)
           marked == [stack EXCEPT ![Len(stack)].tried = @ \cup {value}]
       IN  /\ board' = placed
           /\ IF EmptyCells(placed) = {}
              THEN /\ stack' = <<>>
                   /\ pc' = "solved"
              ELSE LET rc == FirstEmptyCell(placed)
                   IN  /\ stack' = Append(marked, Frame(rc[1], rc[2]))
                       /\ pc' = pc
    /\ UNCHANGED <<appVars, result, puzzleVars, carveVars, callVars>>

\* The shuffled list is exhausted: return false.  The caller clears its cell
\* and goes on with its own list; the outermost call returns to
\* generateSolvedBoard.
ReturnFalse ==
    /\ pc = "solveBoardRecursive"
    /\ Untried(board, Top) = {}
    /\ IF Len(stack) = 1
       THEN /\ stack' = <<>>
            /\ board' = board
            /\ pc' = "unsolved"
       ELSE LET caller == stack[Len(stack) - 1]
            IN  /\ stack' = SubSeq(stack, 1, Len(stack) - 1)
                /\ board' = SetCell(board, caller.row, caller.col, null)
                /\ pc' = pc
    /\ UNCHANGED <<appVars, result, puzzleVars, carveVars, callVars>>

\* if (solveBoardRecursive(board)) return board; return createValidPattern();
GenerateSolvedBoardReturn ==
    /\ pc \in {"solved", "unsolved"}
    /\ result' = IF pc = "solved" THEN board ELSE createValidPattern(Size(board))
    /\ pc' = "generateSolvedBoard returned"
    /\ UNCHANGED <<appVars, board, stack, puzzleVars, carveVars, callVars>>

InitSolved ==
    /\ pc = "solveBoardRecursive"
    /\ board = EmptyBoard(N)
    /\ stack = <<Frame(0, 0)>>
    /\ result = null
    /\ difficulty = null
    /\ solution = null
    /\ puzzle = null
    /\ removedCells = 0
    /\ symmetricPairs = {}
    /\ cellPriorities = <<>>
    /\ guidedRemoved = 0
    /\ attempts = 0
    /\ callBoard = null
    /\ args = <<>>
    /\ edits = 0
    /\ heap = <<>>
    /\ boardRef = null
    /\ solutionRef = null
    /\ AppMounted

NextSolved ==
    \/ \E value \in Symbols(N) : TryValue(value)
    \/ ReturnFalse
    \/ GenerateSolvedBoardReturn

SpecSolved == InitSolved /\ [][NextSolved]_vars

\* Every call of the search goes on to its next statement: the JavaScript
\* run is not suspended between the steps of generateSolvedBoard.
FairSpecSolved == SpecSolved /\ WF_vars(NextSolved)

(***************************************************************************)
(* createValidPattern called on its own, one pass of the repair loop of    *)
(* fixBoardConflicts per step.                                             *)
(***************************************************************************)
InitFallback ==
    /\ pc = "createValidPattern"
    /\ board = EmptyBoard(N)
    /\ stack = <<>>
    /\ result = null
    /\ difficulty = null
    /\ solution = null
    /\ puzzle = null
    /\ removedCells = 0
    /\ symmetricPairs = {}
    /\ cellPriorities = <<>>
    /\ guidedRemoved = 0
    /\ attempts = 0
    /\ callBoard = null
    /\ args = <<>>
    /\ edits = 0
    /\ heap = <<>>
    /\ boardRef = null
    /\ solutionRef = null
    /\ AppMounted

\* the two fill loops, then the call of fixBoardConflicts
FillPattern ==
    /\ pc = "createValidPattern"
    /\ board' = offsetPattern(Size(board))
    /\ attempts' = 0
    /\ pc' = "fixBoardConflicts"
    /\ UNCHANGED <<appVars, stack, result, puzzleVars, removedCells, symmetricPairs,
                   cellPriorities, guidedRemoved, callVars>>

\* one iteration of while (attempts < maxAttempts)
FixBoardPass ==
    /\ pc = "fixBoardConflicts"
    /\ attempts < maxRepairAttempts
    /\ LET pass == fixPass(board, FALSE, 0)
       IN  /\ board' = pass.board
           /\ IF ~pass.hasConflict
              THEN /\ result' = pass.board
                   /\ attempts' = attempts
                   /\ pc' = "createValidPattern returned"
              ELSE /\ result' = result
                   /\ attempts' = attempts + 1
                   /\ pc' = pc
    /\ UNCHANGED <<appVars, stack, puzzleVars, removedCells, symmetricPairs,
                   cellPriorities, guidedRemoved, callVars>>

\* the loop ends because attempts has reached maxAttempts
FixBoardGiveUp ==
    /\ pc = "fixBoardConflicts"
    /\ attempts >= maxRepairAttempts
    /\ result' = board
    /\ pc' = "createValidPattern returned"
    /\ UNCHANGED <<appVars, board, stack, puzzleVars, carveVars, callVars>>

NextFallback ==
    \/ FillPattern
    \/ FixBoardPass
    \/ FixBoardGiveUp

SpecFallback == InitFallback /\ [][NextFallback]_vars

(***************************************************************************)
(* generatePuzzle and the three carving phases.                            *)
(*                                                                         *)
(* The code's cell counts are counts of cells of the 16x16 board.  On a    *)
(* board of side n they are taken in proportion (Scaled), which is the     *)
(* identity for n = 16.                                                    *)
(***************************************************************************)
easyEmptyCells == 60
mediumEmptyCells == 100
hardEmptyCells == 180
defaultEmptyCells == 140
testEmptyCells == 2
symmetricRemovalCap == 100
limitedDepth == 50
maxRestoreAttempts == 20

Scaled(cells, n) == (cells * n * n) \div (16 * 16)

\* The same proportion rounded up.  It is used for the cap of phase 3, which
\* has to leave room for a restoration after the first one on a small board
\* as 20 does on the 16x16 board.
ScaledUp(cells, n) == (cells * n * n + 16 * 16 - 1) \div (16 * 16)

Min(a, b) == IF a <= b THEN a ELSE b

Difficulties == {"easy", "medium", "hard", "test"}

\* the switch of generatePuzzle
targetEmptyCells(d, n) ==
    CASE d = "easy" -> Scaled(easyEmptyCells, n)
      [] d = "medium" -> Scaled(mediumEmptyCells, n)
      [] d = "hard" -> Scaled(hardEmptyCells, n)
      [] d = "test" -> testEmptyCells
      [] OTHER -> Scaled(defaultEmptyCells, n)

\* reachedSymmetricMax with ">" for ">="
reachedSymmetricMaxStrict(removed, target, n) ==
    10 * removed > Min(6 * target, 10 * Scaled(symmetricRemovalCap, n))

\* removedCells >= Math.min(targetEmptyCells * 0.6, 100), in tenths
reachedSymmetricMax(removed, target, n) ==
    10 * removed >= Min(6 * target, 10 * Scaled(symmetricRemovalCap, n))

\* what performSymmetricRemoval returns: the loop over the pairs breaks once
\* the maximum is reached and otherwise removes the 2 cells of the next pair
RECURSIVE symmetricRemovalCount(_, _, _, _)
symmetricRemovalCount(removed, pairsLeft, target, n) ==
    IF pairsLeft = 0 \/ reachedSymmetricMax(removed, target, n) THEN removed
    ELSE symmetricRemovalCount(removed + 2, pairsLeft - 1, target, n)

\* the pairs [[row, col], [15 - row, 15 - col]] for row, col < 8
allSymmetricPairs(n) ==
    {<< <<row, col>>, <<n - 1 - row, n - 1 - col>> >> :
        row \in 0..((n \div 2) - 1), col \in 0..((n \div 2) - 1)}

\* removalPriority without the loop over the sub-grid
removalPriorityNoSubGrid(p, row, col) ==
    LET n == Size(p)
        value == p[row][col]
        valueCount ==
            Cardinality({c \in 0..(n - 1) : p[row][c] = value})
            + Cardinality({r \in 0..(n - 1) : p[r][col] = value})
    IN  50 - valueCount

\* calculateCellRemovalPriority without its random term
removalPriority(p, row, col) ==
    LET n == Size(p)
        b == SubGridSize(n)
        value == p[row][col]
        subGridRow == (row \div b) * b
        subGridCol == (col \div b) * b
        valueCount ==
            Cardinality({c \in 0..(n - 1) : p[row][c] = value})
            + Cardinality({r \in 0..(n - 1) : p[r][col] = value})
            + Cardinality({rc \in (subGridRow..(subGridRow + b - 1))
                                  \X (subGridCol..(subGridCol + b - 1)) :
                              p[rc[1]][rc[2]] = value})
    IN  50 - valueCount

\* Math.random() * 10 lies in [0, 10): a cell can sort before another one
\* unless the other one's priority without the random term is 10 or more above.
canSortFirst(priorities, cell) ==
    \A other \in DOMAIN priorities : priorities[other] - priorities[cell] < 10

hasLimitedUniqueSolution(p) ==
    countSolutionsLimited(p, 2, Scaled(limitedDepth, Size(p)), 0) = 1

\* generateOptimizedUniquePuzzle after phases 1 and 2:
\* if (!hasUniqueSolution(puzzle)) restoreForUniqueness(puzzle, solution)
afterRemoval(p) ==
    IF hasUniqueSolution(p) THEN "generatePuzzle returned"
    ELSE "restoreForUniqueness"

\* const solution = generateSolvedBoard(); const puzzle = copy; switch;
\* test: two cells of the shuffled positions are cleared and the pair returned.
\* otherwise generateOptimizedUniquePuzzle copies the solution and starts phase 1.
\* GeneratePuzzleTest with "i < 1" for "i < 2"
GeneratePuzzleTestOneCell(first, second) ==
    /\ pc = "generateSolvedBoard returned"
    /\ difficulty = "test"
    /\ first # second
    /\ solution' = result
    /\ puzzle' = SetCell(result, first[1], first[2], null)
    /\ pc' = "generatePuzzle returned"
    /\ UNCHANGED <<appVars, result, difficulty, solverVars, carveVars, callVars>>

\* GeneratePuzzleTest that clears the four corners of the rectangle spanned by
\* the two positions
GeneratePuzzleTestRectangle(first, second) ==
    /\ pc = "generateSolvedBoard returned"
    /\ difficulty = "test"
    /\ first # second
    /\ solution' = result
    /\ puzzle' = SetCell(SetCell(SetCell(SetCell(result,
                      first[1], first[2], null), second[1], second[2], null),
                      first[1], second[2], null), second[1], first[2], null)
    /\ pc' = "generatePuzzle returned"
    /\ UNCHANGED <<appVars, result, difficulty, solverVars, carveVars, callVars>>

GeneratePuzzleTest(first, second) ==
    /\ pc = "generateSolvedBoard returned"
    /\ difficulty = "test"
    /\ first # second
    /\ solution' = result
    /\ puzzle' = SetCell(SetCell(result, first[1], first[2], null),
                         second[1], second[2], null)
    /\ pc' = "generatePuzzle returned"
    /\ UNCHANGED <<appVars, result, difficulty, solverVars, carveVars, callVars>>

GeneratePuzzleCarve ==
    /\ pc = "generateSolvedBoard returned"
    /\ difficulty \in Difficulties \ {"test"}
    /\ solution' = result
    /\ puzzle' = result
    /\ removedCells' = 0
    /\ symmetricPairs' = allSymmetricPairs(Size(result))
    /\ pc' = "performSymmetricRemoval"
    /\ UNCHANGED <<appVars, result, difficulty, solverVars, cellPriorities,
                   guidedRemoved, attempts, callVars>>

\* Phase 1, one pair of the shuffled list.
RemoveSymmetricPair(pair) ==
    /\ pc = "performSymmetricRemoval"
    /\ pair \in symmetricPairs
    /\ ~reachedSymmetricMax(removedCells,
                            targetEmptyCells(difficulty, Size(puzzle)), Size(puzzle))
    /\ symmetricPairs' = symmetricPairs \ {pair}
    /\ IF pair[1] = pair[2]
       THEN UNCHANGED <<puzzle, removedCells>>
       ELSE /\ puzzle' = SetCell(SetCell(puzzle, pair[1][1], pair[1][2], null),
                                 pair[2][1], pair[2][2], null)
            /\ removedCells' = removedCells + 2
    /\ UNCHANGED <<appVars, pc, result, difficulty, solution, solverVars, cellPriorities,
                   guidedRemoved, attempts, callVars>>

\* Phase 1 returns; phase 2 starts if cells are still to be removed.
SymmetricRemovalReturn ==
    /\ pc = "performSymmetricRemoval"
    /\ \/ symmetricPairs = {}
       \/ reachedSymmetricMax(removedCells,
                              targetEmptyCells(difficulty, Size(puzzle)), Size(puzzle))
    /\ symmetricPairs' = {}
    /\ IF removedCells < targetEmptyCells(difficulty, Size(puzzle))
       THEN /\ pc' = "performGuidedRemoval"
            /\ cellPriorities' =
                   [rc \in Cells(Size(puzzle)) \ EmptyCells(puzzle) |->
                       removalPriority(puzzle, rc[1], rc[2])]
       ELSE /\ pc' = afterRemoval(puzzle)
            /\ cellPriorities' = cellPriorities
    /\ guidedRemoved' = 0
    /\ attempts' = 0
    /\ UNCHANGED <<appVars, result, puzzleVars, solverVars, removedCells, callVars>>

remainingToRemove == targetEmptyCells(difficulty, Size(puzzle)) - removedCells

maxGuidedAttempts ==
    IF difficulty = "hard" THEN remainingToRemove * 4 ELSE remainingToRemove * 2

\* guidedRemovalDone with ">" for ">="
guidedRemovalDoneLate ==
    guidedRemoved > remainingToRemove \/ attempts > maxGuidedAttempts

guidedRemovalDone ==
    guidedRemoved >= remainingToRemove \/ attempts >= maxGuidedAttempts

\* shouldValidate left at its initial value true
shouldValidateAlways(d, attempt) == TRUE

\* shouldValidate with the moduli of easy and medium exchanged
shouldValidateSwapped(d, attempt) ==
    /\ ~(d = "easy" /\ attempt % 2 # 0)
    /\ ~(d = "medium" /\ attempt % 3 # 0)

shouldValidate(d, attempt) ==
    /\ ~(d = "easy" /\ attempt % 3 # 0)
    /\ ~(d = "medium" /\ attempt % 2 # 0)

\* what performGuidedRemoval returns when every check it runs fails: the loop
\* over the cells of the list with "continue" taken on every checked attempt
RECURSIVE performGuidedRemovalAllFail(_, _, _, _, _)
performGuidedRemovalAllFail(d, remaining, cellsLeft, attemptsMade, removed) ==
    LET maxAttempts == IF d = "hard" THEN remaining * 4 ELSE remaining * 2
    IN  IF cellsLeft = 0 \/ removed >= remaining \/ attemptsMade >= maxAttempts
        THEN removed
        ELSE performGuidedRemovalAllFail(
                 d, remaining, cellsLeft - 1, attemptsMade + 1,
                 IF shouldValidate(d, attemptsMade + 1) THEN removed ELSE removed + 1)

\* Phase 2, one cell of the sorted list.
GuidedAttempt(cell) ==
    /\ pc = "performGuidedRemoval"
    /\ cell \in DOMAIN cellPriorities
    /\ canSortFirst(cellPriorities, cell)
    /\ ~guidedRemovalDone
    /\ LET without == SetCell(puzzle, cell[1], cell[2], null)
           restored == shouldValidate(difficulty, attempts + 1)
                       /\ ~hasLimitedUniqueSolution(without)
       IN  /\ puzzle' = IF restored THEN puzzle ELSE without
           /\ guidedRemoved' = IF restored THEN guidedRemoved ELSE guidedRemoved + 1
    /\ attempts' = attempts + 1
    /\ cellPriorities' = [rc \in DOMAIN cellPriorities \ {cell} |-> cellPriorities[rc]]
    /\ UNCHANGED <<appVars, pc, result, difficulty, solution, solverVars, removedCells,
                   symmetricPairs, callVars>>

\* Phase 2 returns and the exact check decides whether phase 3 runs.
GuidedRemovalReturn ==
    /\ pc = "performGuidedRemoval"
    /\ DOMAIN cellPriorities = {} \/ guidedRemovalDone
    /\ removedCells' = removedCells + guidedRemoved
    /\ cellPriorities' = <<>>
    /\ guidedRemoved' = 0
    /\ attempts' = 0
    /\ pc' = afterRemoval(puzzle)
    /\ UNCHANGED <<appVars, result, puzzleVars, solverVars, symmetricPairs, callVars>>

\* Math.min(emptyCells.length, 20): every attempt has filled one empty cell
maxRestore ==
    Min(Cardinality(EmptyCells(puzzle)) + attempts,
        ScaledUp(maxRestoreAttempts, Size(puzzle)))

\* RestoreCell with solution[col][row] for solution[row][col]
RestoreCellTransposed ==
    /\ pc = "restoreForUniqueness"
    /\ attempts < maxRestore
    /\ ~hasUniqueSolution(puzzle)
    /\ \E cell \in EmptyCells(puzzle) :
          puzzle' = SetCell(puzzle, cell[1], cell[2], solution[cell[2]][cell[1]])
    /\ attempts' = attempts + 1
    /\ UNCHANGED <<appVars, pc, result, difficulty, solution, solverVars, removedCells,
                   symmetricPairs, cellPriorities, guidedRemoved, callVars>>

\* RestoreCell without !hasUniqueSolution(puzzle) in the loop condition
RestoreCellUnchecked ==
    /\ pc = "restoreForUniqueness"
    /\ attempts < maxRestore
    /\ \E cell \in EmptyCells(puzzle) :
          puzzle' = SetCell(puzzle, cell[1], cell[2], solution[cell[1]][cell[2]])
    /\ attempts' = attempts + 1
    /\ UNCHANGED <<appVars, pc, result, difficulty, solution, solverVars, removedCells,
                   symmetricPairs, cellPriorities, guidedRemoved, callVars>>

\* Phase 3, one cell of the shuffled list of empty cells.
RestoreCell ==
    /\ pc = "restoreForUniqueness"
    /\ attempts < maxRestore
    /\ ~hasUniqueSolution(puzzle)
    /\ \E cell \in EmptyCells(puzzle) :
          puzzle' = SetCell(puzzle, cell[1], cell[2], solution[cell[1]][cell[2]])
    /\ attempts' = attempts + 1
    /\ UNCHANGED <<appVars, pc, result, difficulty, solution, solverVars, removedCells,
                   symmetricPairs, cellPriorities, guidedRemoved, callVars>>

RestoreReturn ==
    /\ pc = "restoreForUniqueness"
    /\ attempts >= maxRestore \/ hasUniqueSolution(puzzle)
    /\ attempts' = 0
    /\ pc' = "generatePuzzle returned"
    /\ UNCHANGED <<appVars, result, puzzleVars, solverVars, removedCells,
                   symmetricPairs, cellPriorities, guidedRemoved, callVars>>

\* return { puzzle, solution }: what generatePuzzle hands to its caller
generatePuzzleResult == [puzzle |-> puzzle, solution |-> solution]

\* Bound on the shuffles SpecPuzzle explores: the outermost ShuffledCalls calls
\* of solveBoardRecursive get every order of the symbols, the deeper calls get
\* the symbols in the order of HEX_VALUES.
ShuffledCalls == 1

HexIndex(value) == CHOOSE i \in 1..Len(HEX_VALUES) : HEX_VALUES[i] = value

boundedShuffle(value) ==
    \/ Len(stack) <= ShuffledCalls
    \/ \A other \in Untried(board, Top) : HexIndex(value) <= HexIndex(other)

TryBoundedValue(value) ==
    /\ pc = "solveBoardRecursive"
    /\ boundedShuffle(value)
    /\ TryValue(value)

InitPuzzle ==
    /\ pc = "solveBoardRecursive"
    /\ board = EmptyBoard(N)
    /\ stack = <<Frame(0, 0)>>
    /\ result = null
    /\ difficulty \in Difficulties
    /\ solution = null
    /\ puzzle = null
    /\ removedCells = 0
    /\ symmetricPairs = {}
    /\ cellPriorities = <<>>
    /\ guidedRemoved = 0
    /\ attempts = 0
    /\ callBoard = null
    /\ args = <<>>
    /\ edits = 0
    /\ heap = <<>>
    /\ boardRef = null
    /\ solutionRef = null
    /\ AppMounted

NextPuzzle ==
    \/ \E value \in Symbols(N) : TryBoundedValue(value)
    \/ ReturnFalse
    \/ GenerateSolvedBoardReturn
    \/ \E first \in Cells(N), second \in Cells(N) : GeneratePuzzleTest(first, second)
    \/ GeneratePuzzleCarve
    \/ \E pair \in allSymmetricPairs(N) : RemoveSymmetricPair(pair)
    \/ SymmetricRemovalReturn
    \/ \E cell \in Cells(N) : GuidedAttempt(cell)
    \/ GuidedRemovalReturn
    \/ RestoreCell
    \/ RestoreReturn

SpecPuzzle == InitPuzzle /\ [][NextPuzzle]_vars

(***************************************************************************)
(* Calls of the exported validator functions and of the solution counters. *)
(* The boards they are given are boards the program builds: the board of   *)
(* solveBoardRecursive at any point of its search, and the board that      *)
(* generateSolvedBoard returned after the caller has set or cleared some   *)
(* of its cells, as inputValue and clearCell of the app do.                *)
(***************************************************************************)
\* Cells the caller sets to any value before it calls the validator.
MaxEdits == 2

\* Cells the caller clears before it calls a solution counter.
MaxCleared == 4

\* The caps countSolutions is called with are 1..MaxCap (the code passes 2).
MaxCap == 3

callerBoards ==
    CASE pc = "solveBoardRecursive" -> {board}
      [] pc = "generateSolvedBoard returned" -> {result}
      [] OTHER -> {}

\* newBoard[row][col] = value (inputValue), newBoard[row][col] = null (clearCell)
CallerSetCell(row, col, value) ==
    /\ pc = "generateSolvedBoard returned"
    /\ edits < MaxEdits
    /\ result[row][col] # value
    /\ result' = SetCell(result, row, col, value)
    /\ edits' = edits + 1
    /\ UNCHANGED <<appVars, pc, solverVars, puzzleVars, carveVars, callBoard, args, objectVars>>

CallerClearCell(row, col) ==
    /\ pc = "generateSolvedBoard returned"
    /\ edits < MaxCleared
    /\ result[row][col] # null
    /\ result' = SetCell(result, row, col, null)
    /\ edits' = edits + 1
    /\ UNCHANGED <<appVars, pc, solverVars, puzzleVars, carveVars, callBoard, args, objectVars>>

CallIsValidMove(row, col, value) ==
    /\ \E b \in callerBoards :
          /\ callBoard' = b
          /\ result' = isValidMove(b, row, col, value)
    /\ args' = <<row, col, value>>
    /\ pc' = "isValidMove returned"
    /\ UNCHANGED <<appVars, solverVars, puzzleVars, carveVars, edits, objectVars>>

CallGetConflicts(row, col) ==
    /\ \E b \in callerBoards :
          /\ callBoard' = b
          /\ result' = getConflicts(b, row, col)
    /\ args' = <<row, col>>
    /\ pc' = "getConflicts returned"
    /\ UNCHANGED <<appVars, solverVars, puzzleVars, carveVars, edits, objectVars>>

CallIsSolved ==
    /\ \E b \in callerBoards :
          /\ callBoard' = b
          /\ result' = isSolved(b)
    /\ args' = <<>>
    /\ pc' = "isSolved returned"
    /\ UNCHANGED <<appVars, solverVars, puzzleVars, carveVars, edits, objectVars>>

CallCountSolutions(maxSolutions) ==
    /\ \E b \in callerBoards :
          /\ callBoard' = b
          /\ result' = countSolutions(b, maxSolutions)
    /\ args' = <<maxSolutions>>
    /\ pc' = "countSolutions returned"
    /\ UNCHANGED <<appVars, solverVars, puzzleVars, carveVars, edits, objectVars>>

CallHasUniqueSolution ==
    /\ \E b \in callerBoards :
          /\ callBoard' = b
          /\ result' = hasUniqueSolution(b)
    /\ args' = <<>>
    /\ pc' = "hasUniqueSolution returned"
    /\ UNCHANGED <<appVars, solverVars, puzzleVars, carveVars, edits, objectVars>>

NextValidator ==
    \/ \E value \in Symbols(N) : TryBoundedValue(value)
    \/ ReturnFalse
    \/ GenerateSolvedBoardReturn
    \/ \E row \in 0..(N - 1), col \in 0..(N - 1), value \in Symbols(N) \cup {null} :
          CallerSetCell(row, col, value)
    \/ \E row \in 0..(N - 1), col \in 0..(N - 1), value \in Symbols(N) :
          CallIsValidMove(row, col, value)
    \/ \E row \in 0..(N - 1), col \in 0..(N - 1) : CallGetConflicts(row, col)
    \/ CallIsSolved

SpecValidator == InitSolved /\ [][NextValidator]_vars

NextCounter ==
    \/ \E value \in Symbols(N) : TryBoundedValue(value)
    \/ ReturnFalse
    \/ GenerateSolvedBoardReturn
    \/ \E row \in 0..(N - 1), col \in 0..(N - 1) : CallerClearCell(row, col)
    \/ \E maxSolutions \in 1..MaxCap : CallCountSolutions(maxSolutions)
    \/ CallHasUniqueSolution

SpecCounter == InitSolved /\ [][NextCounter]_vars

(***************************************************************************)
(* Hint system: getHint, getValueCompletionStats, getNextValueToTackle.    *)
(* The code's 16 (occurrences of a value in a full 16x16 board) is the     *)
(* side of the board.  A percentage is kept in hundredths of a percent,    *)
(* which is exact for the sides 4 and 16: 100 / 16 = 6.25.                 *)
(***************************************************************************)
\* the first empty cell of board whose solution cell is filled, or null
getHint(b, sol) ==
    LET n == Size(b)
        hits == {k \in 0..(n * n - 1) :
                    b[k \div n][k % n] = null /\ sol[k \div n][k % n] # null}
        k == CHOOSE k \in hits : \A j \in hits : k <= j
    IN  IF hits = {} THEN null
        ELSE [row |-> k \div n, col |-> k % n, value |-> sol[k \div n][k % n]]

\* (filled / total) * 100, in hundredths of a percent; percentageOf(1, 1) is
\* the code's 100 and percentageOf(-1, 100) its -1
percentageOf(filled, total) == (filled * 100 * 100) \div total

\* Math.round on hundredths of a percent: the nearest integer, halves upwards
MathRound(hundredths) == (hundredths + 50) \div 100

\* getValueCompletionStats that also counts the empty cells under HEX_VALUES[1]
getValueCompletionStatsCountingEmpty(b) ==
    LET n == Size(b)
        filledOf(value) ==
            Cardinality({rc \in Cells(n) :
                \/ b[rc[1]][rc[2]] = value
                \/ value = HEX_VALUES[1] /\ b[rc[1]][rc[2]] = null})
    IN  [value \in Symbols(n) |->
            [filled |-> filledOf(value),
             total |-> n,
             percentage |-> percentageOf(filledOf(value), n)]]

\* stats[value] for every value of the alphabet; a cell counts for stats[value]
\* when it is not empty and its value is a key of stats
getValueCompletionStats(b) ==
    LET n == Size(b)
        filledOf(value) ==
            Cardinality({rc \in Cells(n) :
                b[rc[1]][rc[2]] # null /\ b[rc[1]][rc[2]] = value})
    IN  [value \in Symbols(n) |->
            [filled |-> filledOf(value),
             total |-> n,
             percentage |-> percentageOf(filledOf(value), n)]]

\* Object.entries(stats).forEach from the i-th entry on.  The keys "0".."9"
\* are integer keys, which come first in ascending order, then "A".."F" in
\* the order they were inserted: the order of HEX_VALUES.
RECURSIVE nextValueFrom(_, _, _, _)
nextValueFrom(stats, i, nextValue, highestPercentage) ==
    IF i > Cardinality(DOMAIN stats)
    THEN [nextValue |-> nextValue, highestPercentage |-> highestPercentage]
    ELSE LET value == HEX_VALUES[i]
             data == stats[value]
         IN  IF data.percentage > highestPercentage
                /\ data.percentage < percentageOf(1, 1)
             THEN nextValueFrom(stats, i + 1, value, data.percentage)
             ELSE nextValueFrom(stats, i + 1, nextValue, highestPercentage)

\* getNextValueToTackle with ">=" for ">" in the comparison of percentages
getNextValueToTackleLastWins(b) ==
    LET stats == getValueCompletionStats(b)
        best == {value \in DOMAIN stats :
                    /\ stats[value].percentage < percentageOf(1, 1)
                    /\ \A other \in DOMAIN stats :
                          stats[other].percentage < percentageOf(1, 1)
                              => stats[other].percentage <= stats[value].percentage}
        last == CHOOSE value \in best :
                    \A other \in best : HexIndex(other) <= HexIndex(value)
    IN  IF best = {}
        THEN [value |-> null, percentage |-> -1, remaining |-> 0]
        ELSE [value |-> last,
              percentage |-> MathRound(stats[last].percentage),
              remaining |-> Size(b) - stats[last].filled]

\* getNextValueToTackle with "filled" for "16 - filled" in remaining
getNextValueToTackleFilled(b) ==
    LET stats == getValueCompletionStats(b)
        found == nextValueFrom(stats, 1, null, percentageOf(-1, 100))
    IN  [value |-> found.nextValue,
         percentage |-> MathRound(found.highestPercentage),
         remaining |-> IF found.nextValue # null
                       THEN stats[found.nextValue].filled ELSE 0]

getNextValueToTackle(b) ==
    LET stats == getValueCompletionStats(b)
        found == nextValueFrom(stats, 1, null, percentageOf(-1, 100))
    IN  [value |-> found.nextValue,
         percentage |-> MathRound(found.highestPercentage),
         remaining |-> IF found.nextValue # null
                       THEN Size(b) - stats[found.nextValue].filled ELSE 0]

CallGetValueCompletionStats ==
    /\ \E b \in callerBoards :
          /\ callBoard' = b
          /\ result' = getValueCompletionStats(b)
    /\ args' = <<>>
    /\ pc' = "getValueCompletionStats returned"
    /\ UNCHANGED <<appVars, solverVars, puzzleVars, carveVars, edits, objectVars>>

CallGetNextValueToTackle ==
    /\ \E b \in callerBoards :
          /\ callBoard' = b
          /\ result' = getNextValueToTackle(b)
    /\ args' = <<>>
    /\ pc' = "getNextValueToTackle returned"
    /\ UNCHANGED <<appVars, solverVars, puzzleVars, carveVars, edits, objectVars>>

\* what the caller writes into a cell: a symbol of the alphabet, null, or a
\* value that is not a key of stats
CallerValues == Symbols(N) \cup {null, HEX_VALUES[N + 1]}

NextHint ==
    \/ \E value \in Symbols(N) : TryBoundedValue(value)
    \/ ReturnFalse
    \/ GenerateSolvedBoardReturn
    \/ \E row \in 0..(N - 1), col \in 0..(N - 1), value \in CallerValues :
          CallerSetCell(row, col, value)
    \/ CallGetValueCompletionStats
    \/ CallGetNextValueToTackle

SpecHint == InitSolved /\ [][NextHint]_vars

(***************************************************************************)
(* Boards as objects.  A board of the code is an array of row arrays, and  *)
(* two board variables can share rows.  heap[id] is the content of the row *)
(* array id; a board object maps each row index to the id of its row; an   *)
(* assignment board[row][col] = value changes heap[board[row]].            *)
(***************************************************************************)
\* Cells generatePuzzle has empty at most while its writes are followed.
MaxCarved == 2

\* Depth caps countSolutionsLimited is called with besides the code's.
MaxDepthArg == 1

\* the content of a board object
Deref(h, ref) == [row \in DOMAIN ref |-> h[ref[row]]]

\* a new board object with new rows of the given content
allocBoard(h, content) ==
    LET used == Cardinality(DOMAIN h)
        n == Size(content)
    IN  [heap |-> [id \in 1..(used + n) |->
                      IF id <= used THEN h[id] ELSE content[id - used - 1]],
         board |-> [row \in 0..(n - 1) |-> used + row + 1]]

\* [...board]: a new outer array that holds the same row arrays
copyArrayOnly(h, ref) == [heap |-> h, board |-> ref]

\* board.map(row => [...row]): a new outer array of new row arrays
copyRows(h, ref) == allocBoard(h, Deref(h, ref))

\* the assignments made to the cells of a board object, taken together: its
\* rows hold the given content afterwards
storeCells(h, ref, content) ==
    [id \in DOMAIN h |->
        IF \E row \in DOMAIN ref : ref[row] = id
        THEN content[CHOOSE row \in DOMAIN ref : ref[row] = id]
        ELSE h[id]]

\* solvePuzzle: the copy is filled in place and returned, or left as it was
solvePuzzleOnHeap(h, ref) ==
    LET copy == copyRows(h, ref)
        solved == solve(Deref(copy.heap, copy.board))
    IN  [heap |-> storeCells(copy.heap, copy.board, solved.board),
         result |-> IF solved.ok THEN copy.board ELSE null]

\* countSolutions: workingBoard is a copy that solveBrute writes into
countSolutionsOnHeap(h, ref, maxSolutions) ==
    LET copy == copyRows(h, ref)
        counted == solveBrute(Deref(copy.heap, copy.board), 0, maxSolutions)
    IN  [heap |-> storeCells(copy.heap, copy.board, counted.board),
         result |-> counted.count]

\* countSolutionsLimited: returns 1 before it copies when the depth is used up
countSolutionsLimitedOnHeap(h, ref, maxSolutions, maxDepth, currentDepth) ==
    IF currentDepth >= maxDepth THEN [heap |-> h, result |-> 1]
    ELSE LET copy == copyRows(h, ref)
             counted == solveBruteLimited(Deref(copy.heap, copy.board), 0,
                                          maxSolutions, maxDepth, currentDepth)
         IN  [heap |-> storeCells(copy.heap, copy.board, counted.board),
              result |-> counted.count]

\* the functions whose code holds no assignment to a cell of a board
ReadOnlyFunctions ==
    {"isValidMove", "getConflicts", "isSolved",
     "getValueCompletionStats", "getNextValueToTackle"}

readOnlyResult(fn, b, row, col, value) ==
    CASE fn = "isValidMove" -> isValidMove(b, row, col, value)
      [] fn = "getConflicts" -> getConflicts(b, row, col)
      [] fn = "isSolved" -> isSolved(b)
      [] fn = "getValueCompletionStats" -> getValueCompletionStats(b)
      [] fn = "getNextValueToTackle" -> getNextValueToTackle(b)

\* the caller's board becomes the only object of the heap
callerObject(b) == allocBoard(<<>>, b)

CallReadOnlyOnHeap(fn, row, col, value) ==
    /\ \E b \in callerBoards :
          /\ callBoard' = b
          /\ heap' = callerObject(b).heap
          /\ boardRef' = callerObject(b).board
          /\ result' = readOnlyResult(fn, b, row, col, value)
    /\ solutionRef' = null
    /\ args' = <<row, col, value>>
    /\ pc' = fn \o " returned"
    /\ UNCHANGED <<appVars, solverVars, puzzleVars, carveVars, edits>>

\* getHint(board, solution) with the solution solvePuzzle finds for the board
CallGetHintOnHeap ==
    /\ \E b \in callerBoards :
          /\ solve(b).ok
          /\ LET caller == callerObject(b)
                 solved == allocBoard(caller.heap, solvePuzzle(b))
             IN  /\ heap' = solved.heap
                 /\ boardRef' = caller.board
                 /\ solutionRef' = solved.board
          /\ callBoard' = b
          /\ solution' = solvePuzzle(b)
          /\ result' = getHint(b, solvePuzzle(b))
    /\ args' = <<>>
    /\ pc' = "getHint returned"
    /\ UNCHANGED <<appVars, solverVars, difficulty, puzzle, carveVars, edits>>

CallSolvePuzzleOnHeap ==
    /\ \E b \in callerBoards :
          LET caller == callerObject(b)
              call == solvePuzzleOnHeap(caller.heap, caller.board)
          IN  /\ heap' = call.heap
              /\ boardRef' = caller.board
              /\ result' = call.result
              /\ callBoard' = b
    /\ solutionRef' = null
    /\ args' = <<>>
    /\ pc' = "solvePuzzle returned"
    /\ UNCHANGED <<appVars, solverVars, puzzleVars, carveVars, edits>>

CallCountSolutionsOnHeap(maxSolutions) ==
    /\ \E b \in callerBoards :
          LET caller == callerObject(b)
              call == countSolutionsOnHeap(caller.heap, caller.board, maxSolutions)
          IN  /\ heap' = call.heap
              /\ boardRef' = caller.board
              /\ result' = call.result
              /\ callBoard' = b
    /\ solutionRef' = null
    /\ args' = <<maxSolutions>>
    /\ pc' = "countSolutions returned"
    /\ UNCHANGED <<appVars, solverVars, puzzleVars, carveVars, edits>>

CallCountSolutionsLimitedOnHeap(maxDepth) ==
    /\ \E b \in callerBoards :
          LET caller == callerObject(b)
              call == countSolutionsLimitedOnHeap(caller.heap, caller.board,
                                                  2, maxDepth, 0)
          IN  /\ heap' = call.heap
              /\ boardRef' = caller.board
              /\ result' = call.result
              /\ callBoard' = b
    /\ solutionRef' = null
    /\ args' = <<2, maxDepth, 0>>
    /\ pc' = "countSolutionsLimited returned"
    /\ UNCHANGED <<appVars, solverVars, puzzleVars, carveVars, edits>>

\* generatePuzzle: solution is the board generateSolvedBoard built, puzzle a
\* copy of it; generateOptimizedUniquePuzzle carves a copy of its own.
GeneratePuzzleOnHeap(d) ==
    /\ pc = "generateSolvedBoard returned"
    /\ LET built == callerObject(result)
           first == copyRows(built.heap, built.board)
           second == copyRows(first.heap, built.board)
       IN  /\ solutionRef' = built.board
           /\ heap' = IF d = "test" THEN first.heap ELSE second.heap
           /\ boardRef' = IF d = "test" THEN first.board ELSE second.board
    /\ difficulty' = d
    /\ solution' = result
    /\ puzzle' = result
    /\ pc' = "generatePuzzle carving"
    /\ UNCHANGED <<appVars, result, solverVars, carveVars, callBoard, args, edits>>

\* puzzle[row][col] = null: the assignment of the test branch and of phases
\* 1 and 2, whichever cell it is made to
ClearOnHeap(row, col) ==
    /\ pc = "generatePuzzle carving"
    /\ puzzle[row][col] # null
    /\ Cardinality(EmptyCells(puzzle)) < MaxCarved
    /\ heap' = [heap EXCEPT ![boardRef[row]][col] = null]
    /\ puzzle' = SetCell(puzzle, row, col, null)
    /\ UNCHANGED <<appVars, pc, result, difficulty, solution, solverVars, carveVars,
                   callBoard, args, edits, boardRef, solutionRef>>

\* puzzle[row][col] = solution[row][col]: the assignment of phase 3, and of
\* phase 2 when it puts originalValue back
RestoreOnHeap(row, col) ==
    /\ pc = "generatePuzzle carving"
    /\ difficulty # "test"
    /\ puzzle[row][col] = null
    /\ heap' = [heap EXCEPT ![boardRef[row]][col] = heap[solutionRef[row]][col]]
    /\ puzzle' = SetCell(puzzle, row, col, solution[row][col])
    /\ UNCHANGED <<appVars, pc, result, difficulty, solution, solverVars, carveVars,
                   callBoard, args, edits, boardRef, solutionRef>>

\* return { puzzle, solution }
GeneratePuzzleOnHeapReturn ==
    /\ pc = "generatePuzzle carving"
    /\ result' = [puzzle |-> boardRef, solution |-> solutionRef]
    /\ pc' = "generatePuzzle returned"
    /\ UNCHANGED <<appVars, puzzleVars, solverVars, carveVars, callVars>>

NextFrame ==
    \/ \E value \in Symbols(N) : TryBoundedValue(value)
    \/ ReturnFalse
    \/ GenerateSolvedBoardReturn
    \/ \E fn \in ReadOnlyFunctions, row \in 0..(N - 1), col \in 0..(N - 1),
          value \in Symbols(N) : CallReadOnlyOnHeap(fn, row, col, value)
    \/ CallGetHintOnHeap
    \/ CallSolvePuzzleOnHeap
    \/ \E maxSolutions \in 1..MaxCap : CallCountSolutionsOnHeap(maxSolutions)
    \/ \E maxDepth \in {0, MaxDepthArg, Scaled(limitedDepth, N)} :
          CallCountSolutionsLimitedOnHeap(maxDepth)
    \/ \E d \in Difficulties : GeneratePuzzleOnHeap(d)
    \/ \E row \in 0..(N - 1), col \in 0..(N - 1) : ClearOnHeap(row, col)
    \/ \E row \in 0..(N - 1), col \in 0..(N - 1) : RestoreOnHeap(row, col)
    \/ GeneratePuzzleOnHeapReturn

SpecFrame == InitSolved /\ [][NextFrame]_vars

(***************************************************************************)
(* Calls of performGuidedRemoval on its own.  Its puzzle is the board that *)
(* generateSolvedBoard returned with its first cells in reading order      *)
(* cleared, at most MaxGivenEmpty of them; its remainingToRemove is        *)
(* 1..MaxRemaining: the caller's removedCells is the number that makes     *)
(* targetEmptyCells - removedCells that argument.                          *)
(***************************************************************************)
MaxGivenEmpty == 2
MaxRemaining == 3

\* the board with its first given cells in reading order cleared
withFirstCleared(b, given) ==
    [row \in DOMAIN b |->
        [col \in DOMAIN b[row] |->
            IF row * Size(b) + col < given THEN null ELSE b[row][col]]]

CallPerformGuidedRemoval(given, remaining, d) ==
    /\ pc = "generateSolvedBoard returned"
    /\ LET p == withFirstCleared(result, given)
       IN  /\ puzzle' = p
           /\ callBoard' = p
           /\ cellPriorities' =
                  [rc \in Cells(Size(p)) \ EmptyCells(p) |->
                      removalPriority(p, rc[1], rc[2])]
    /\ difficulty' = d
    /\ removedCells' = targetEmptyCells(d, Size(result)) - remaining
    /\ guidedRemoved' = 0
    /\ attempts' = 0
    /\ args' = <<remaining, d>>
    /\ pc' = "performGuidedRemoval"
    /\ UNCHANGED <<appVars, result, solution, solverVars, symmetricPairs, edits, objectVars>>

\* return removedCells
PerformGuidedRemovalReturn ==
    /\ pc = "performGuidedRemoval"
    /\ DOMAIN cellPriorities = {} \/ guidedRemovalDone
    /\ result' = guidedRemoved
    /\ pc' = "performGuidedRemoval returned"
    /\ UNCHANGED <<appVars, puzzleVars, solverVars, carveVars, callVars>>

NextGuided ==
    \/ \E value \in Symbols(N) : TryBoundedValue(value)
    \/ ReturnFalse
    \/ GenerateSolvedBoardReturn
    \/ \E given \in 0..MaxGivenEmpty, remaining \in 1..MaxRemaining,
          d \in Difficulties \ {"test"} :
          CallPerformGuidedRemoval(given, remaining, d)
    \/ \E cell \in Cells(N) : GuidedAttempt(cell)
    \/ PerformGuidedRemovalReturn

SpecGuided == InitSolved /\ [][NextGuided]_vars

(***************************************************************************)
(* Calls of the depth-capped counter.  hasLimitedUniqueSolution passes the *)
(* cap of the code; countSolutionsLimited is also called with maxSolutions *)
(* 2 and a depth cap of 0..MaxDepthCap.                                    *)
(***************************************************************************)
MaxDepthCap == 5

CallHasLimitedUniqueSolution ==
    /\ \E b \in callerBoards :
          /\ callBoard' = b
          /\ result' = hasLimitedUniqueSolution(b)
    /\ args' = <<>>
    /\ pc' = "hasLimitedUniqueSolution returned"
    /\ UNCHANGED <<appVars, solverVars, puzzleVars, carveVars, edits, objectVars>>

CallCountSolutionsLimited(maxSolutions, maxDepth) ==
    /\ \E b \in callerBoards :
          /\ callBoard' = b
          /\ result' = countSolutionsLimited(b, maxSolutions, maxDepth, 0)
    /\ args' = <<maxSolutions, maxDepth>>
    /\ pc' = "countSolutionsLimited returned"
    /\ UNCHANGED <<appVars, solverVars, puzzleVars, carveVars, edits, objectVars>>

NextLimited ==
    \/ \E value \in Symbols(N) : TryBoundedValue(value)
    \/ ReturnFalse
    \/ GenerateSolvedBoardReturn
    \/ \E row \in 0..(N - 1), col \in 0..(N - 1) : CallerClearCell(row, col)
    \/ CallHasLimitedUniqueSolution
    \/ \E maxDepth \in 0..MaxDepthCap : CallCountSolutionsLimited(2, maxDepth)

SpecLimited == InitSolved /\ [][NextLimited]_vars

(***************************************************************************)
(* The app.  One game is followed from the press in the menu that starts   *)
(* it: generatePuzzle runs as in SpecPuzzle, startNewGame (or, for         *)
(* 'test', activateTestMode, which has the same body) stores its puzzle,   *)
(* and from then on every event handler is one step.  A handler reads the  *)
(* state of the render it was created in and its setters take effect       *)
(* together when it has returned: the unprimed variables are what the      *)
(* handler reads, the primed ones what the next render shows.  The clock,  *)
(* the conflict highlights, the hint line, the haptics and the animation   *)
(* of the combo bar are left out: no handler reads them back.              *)
(***************************************************************************)
\* Games are started in the modes whose 4x4 puzzles have few empty cells, so
\* that a game can be played to its end within MaxMoves moves.
AppDifficulties == {"easy", "test"}

\* Calls of inputValue and clearCell that change the board in one game.
MaxMoves == 3

COMBO_DURATION == 30000
BASE_SCORE == 100
completionBonus == 1000

Max(a, b) == IF a >= b THEN a ELSE b

\* selectedCell === null
noCell == <<>>

ArrowKeys == {"ARROWUP", "ARROWDOWN", "ARROWLEFT", "ARROWRIGHT"}

\* One step in the direction of the key, held inside the board by Math.max
\* and Math.min.
arrowStep(key, cell, n) ==
    CASE key = "ARROWUP" -> <<Max(0, cell[1] - 1), cell[2]>>
      [] key = "ARROWDOWN" -> <<Min(n - 1, cell[1] + 1), cell[2]>>
      [] key = "ARROWLEFT" -> <<cell[1], Max(0, cell[2] - 1)>>
      [] key = "ARROWRIGHT" -> <<cell[1], Min(n - 1, cell[2] + 1)>>

\* "If we've reached the edge, stop searching"
reachedEdge(key, cell, n) ==
    \/ key = "ARROWUP" /\ cell[1] = 0
    \/ key = "ARROWDOWN" /\ cell[1] = n - 1
    \/ key = "ARROWLEFT" /\ cell[2] = 0
    \/ key = "ARROWRIGHT" /\ cell[2] = n - 1

\* The for loop of navigateWithArrowKeys from its pass i on, looking at cell:
\* the cell it selects, or noCell when it selects none.
RECURSIVE arrowSearch(_, _, _, _)
arrowSearch(initial, key, cell, i) ==
    IF i >= Size(initial) THEN noCell
    ELSE IF initial[cell[1]][cell[2]] = null THEN cell
    ELSE LET next == arrowStep(key, cell, Size(initial))
         IN  IF reachedEdge(key, next, Size(initial)) THEN noCell
             ELSE arrowSearch(initial, key, next, i + 1)

\* navigateWithArrowKeys that moves to the neighbour whatever it holds
navigateWithArrowKeysUnchecked(initial, selected, key) ==
    arrowStep(key, selected, Size(initial))

\* The cell that is selected when navigateWithArrowKeys has returned.
navigateWithArrowKeys(initial, selected, key) ==
    LET new == arrowStep(key, selected, Size(initial))
    IN  IF initial[new[1]][new[2]] = null THEN new
        ELSE LET found == arrowSearch(initial, key, new, 0)
             IN  IF found = noCell THEN selected ELSE found

\* const moveScore = BASE_SCORE * Math.max(1, comboMultiplier)
moveScore == BASE_SCORE * Max(1, comboMultiplier)

\* finalScore of inputValue: totalScore is the value of the render the
\* handler was created in, the total before the move.
finalScore == totalScore + completionBonus

InitApp ==
    /\ pc = "solveBoardRecursive"
    /\ board = EmptyBoard(N)
    /\ stack = <<Frame(0, 0)>>
    /\ result = null
    /\ difficulty \in AppDifficulties
    /\ solution = null
    /\ puzzle = null
    /\ removedCells = 0
    /\ symmetricPairs = {}
    /\ cellPriorities = <<>>
    /\ guidedRemoved = 0
    /\ attempts = 0
    /\ callBoard = null
    /\ args = <<>>
    /\ edits = 0
    /\ heap = <<>>
    /\ boardRef = null
    /\ solutionRef = null
    /\ AppMounted

\* startNewGame and activateTestMode from the return of generatePuzzle on
StartNewGame ==
    /\ pc = "generatePuzzle returned"
    /\ gameState = "menu"
    /\ appBoard' = puzzle
    /\ initialBoard' = puzzle
    /\ selectedCell' = noCell
    /\ gameState' = "playing"
    /\ comboTimer' = 0
    /\ comboMultiplier' = 0
    /\ totalScore' = 0
    /\ comboScore' = 0
    /\ pc' = "startNewGame returned"
    /\ UNCHANGED <<result, solverVars, puzzleVars, carveVars, callVars, modalVars>>

\* The game screen is rendered, with its cells and buttons.
gameScreen == pc = "startNewGame returned" /\ gameState # "menu"

SelectCell(row, col) ==
    /\ gameScreen
    /\ initialBoard[row][col] = null
    /\ selectedCell' = <<row, col>>
    /\ UNCHANGED <<pc, result, solverVars, puzzleVars, carveVars, callVars, appBoard,
                   initialBoard, gameState, scoreVars, modalVars>>

\* handleKeyPress with an arrow key
NavigateWithArrowKeys(key) ==
    /\ gameScreen
    /\ gameState = "playing"
    /\ selectedCell # noCell
    /\ selectedCell' = navigateWithArrowKeys(initialBoard, selectedCell, key)
    /\ UNCHANGED <<pc, result, solverVars, puzzleVars, carveVars, callVars, appBoard,
                   initialBoard, gameState, scoreVars, modalVars>>

\* The setters of handleSuccessfulMove.
handleSuccessfulMove ==
    /\ IF comboTimer > 0
       THEN /\ comboMultiplier' = comboMultiplier + 1
            /\ comboScore' = comboScore + moveScore
       ELSE /\ comboMultiplier' = 1
            /\ comboScore' = moveScore
    /\ comboTimer' = COMBO_DURATION

\* inputValue, from a hex button or from handleKeyPress with a hex key
InputValue(value) ==
    /\ gameScreen
    /\ selectedCell # noCell
    /\ initialBoard[selectedCell[1]][selectedCell[2]] = null
    /\ edits < MaxMoves
    /\ LET row == selectedCell[1]
           col == selectedCell[2]
           newBoard == SetCell(appBoard, row, col, value)
           successful == Len(getConflicts(newBoard, row, col)) = 0
           solved == isSolved(newBoard)
       IN  /\ IF successful
              THEN handleSuccessfulMove
              ELSE /\ comboTimer' = 0
                   /\ comboMultiplier' = 0
                   /\ comboScore' = 0
           /\ appBoard' = newBoard
           /\ totalScore' = totalScore + (IF successful THEN moveScore ELSE 0)
                                       + (IF solved THEN completionBonus ELSE 0)
           /\ gameState' = IF solved THEN "won" ELSE gameState
           /\ timeouts' = IF solved THEN Append(timeouts, finalScore) ELSE timeouts
    /\ edits' = edits + 1
    /\ UNCHANGED <<pc, result, solverVars, puzzleVars, carveVars, callBoard, args,
                   objectVars, initialBoard, selectedCell, winData, showWinModal>>

\* clearCell, from the Clear button or from handleKeyPress
ClearCell ==
    /\ gameScreen
    /\ selectedCell # noCell
    /\ initialBoard[selectedCell[1]][selectedCell[2]] = null
    /\ edits < MaxMoves
    /\ appBoard[selectedCell[1]][selectedCell[2]] # null
    /\ appBoard' = SetCell(appBoard, selectedCell[1], selectedCell[2], null)
    /\ edits' = edits + 1
    /\ UNCHANGED <<pc, result, solverVars, puzzleVars, carveVars, callBoard, args,
                   objectVars, initialBoard, selectedCell, gameState, scoreVars,
                   modalVars>>

\* The interval of the combo timer effect, from the callback that brings
\* newTime to 0 or below; the callbacks before it change only the bar.
ComboExpired ==
    /\ gameState = "playing"
    /\ comboTimer > 0
    /\ comboTimer' = 0
    /\ comboMultiplier' = 0
    /\ comboScore' = 0
    /\ UNCHANGED <<pc, result, solverVars, puzzleVars, carveVars, callVars, appBoard,
                   initialBoard, selectedCell, gameState, totalScore, modalVars>>

\* The callback inputValue gave to setTimeout, 500 ms after the winning move
WinTimeout ==
    /\ timeouts # <<>>
    /\ winData' = [score |-> Head(timeouts)]
    /\ showWinModal' = TRUE
    /\ timeouts' = Tail(timeouts)
    /\ UNCHANGED <<pc, result, solverVars, puzzleVars, carveVars, callVars, appBoard,
                   initialBoard, selectedCell, gameState, scoreVars>>

\* The two buttons of the win modal
CloseWinModal ==
    /\ showWinModal
    /\ showWinModal' = FALSE
    /\ gameState' = "menu"
    /\ UNCHANGED <<pc, result, solverVars, puzzleVars, carveVars, callVars, appBoard,
                   initialBoard, selectedCell, scoreVars, timeouts, winData>>

\* The steps of a game.  generatePuzzle runs to its return as in SpecPuzzle;
\* the puzzles of AppDifficulties are unique when the removal returns, so
\* that restoreForUniqueness has no step to take here.  The game is followed
\* until the player leaves it by the win modal.
NextApp ==
    \/ \E value \in Symbols(N) : TryBoundedValue(value)
    \/ ReturnFalse
    \/ GenerateSolvedBoardReturn
    \/ \E first \in Cells(N), second \in Cells(N) : GeneratePuzzleTest(first, second)
    \/ GeneratePuzzleCarve
    \/ \E pair \in allSymmetricPairs(N) : RemoveSymmetricPair(pair)
    \/ SymmetricRemovalReturn
    \/ \E cell \in Cells(N) : GuidedAttempt(cell)
    \/ GuidedRemovalReturn
    \/ StartNewGame
    \/ \E row \in 0..(N - 1), col \in 0..(N - 1) : SelectCell(row, col)
    \/ \E key \in ArrowKeys : NavigateWithArrowKeys(key)
    \/ \E value \in Symbols(N) : InputValue(value)
    \/ ClearCell
    \/ ComboExpired
    \/ WinTimeout
    \/ CloseWinModal

SpecApp == InitApp /\ [][NextApp]_vars

(***************************************************************************)
(* The rules of the game, stated on their own: what the properties below  *)
(* compare the code with.                                                 *)
(***************************************************************************)
SameBlock(n, a, b) ==
    /\ a[1] \div SubGridSize(n) = b[1] \div SubGridSize(n)
    /\ a[2] \div SubGridSize(n) = b[2] \div SubGridSize(n)

\* the other cells in the row, the column or the aligned block of a cell
Peers(n, cell) ==
    {other \in Cells(n) :
        /\ other # cell
        /\ other[1] = cell[1] \/ other[2] = cell[2] \/ SameBlock(n, cell, other)}

Rows(n) == {{<<row, col>> : col \in 0..(n - 1)} : row \in 0..(n - 1)}
Columns(n) == {{<<row, col>> : row \in 0..(n - 1)} : col \in 0..(n - 1)}
Blocks(n) == {{other \in Cells(n) : SameBlock(n, cell, other)} : cell \in Cells(n)}
Units(n) == Rows(n) \cup Columns(n) \cup Blocks(n)

At(grid, cell) == grid[cell[1]][cell[2]]

\* every row, column and block holds each symbol exactly once
IsSolution(grid) ==
    \A unit \in Units(Size(grid)) :
        \A symbol \in Symbols(Size(grid)) :
            Cardinality({cell \in unit : At(grid, cell) = symbol}) = 1

\* no two filled cells that share a row, column or block hold the same symbol
ConflictFree(grid) ==
    \A cell \in Cells(Size(grid)) :
        At(grid, cell) # null =>
            \A other \in Peers(Size(grid), cell) : At(grid, other) # At(grid, cell)

\* the number of ways to fill the empty cells of a conflict-free grid so that
\* the rules hold
RECURSIVE NumCompletions(_)
NumCompletions(grid) ==
    LET n == Size(grid)
        empty == {cell \in Cells(n) : At(grid, cell) = null}
        cell == CHOOSE c \in empty : TRUE
        free == {symbol \in Symbols(n) :
                    \A other \in Peers(n, cell) : At(grid, other) # symbol}
        RECURSIVE Sum(_)
        Sum(symbols) ==
            IF symbols = {} THEN 0
            ELSE LET symbol == CHOOSE x \in symbols : TRUE
                 IN  NumCompletions(SetCell(grid, cell[1], cell[2], symbol))
                     + Sum(symbols \ {symbol})
    IN  IF empty = {} THEN (IF IsSolution(grid) THEN 1 ELSE 0) ELSE Sum(free)

Range(seq) == {seq[i] : i \in 1..Len(seq)}

NoDuplicates(seq) == \A i, j \in 1..Len(seq) : seq[i] = seq[j] => i = j

\* the other cells in the row, column or block of a cell that hold its value
SameValuedPeers(grid, cell) ==
    {other \in Peers(Size(grid), cell) : At(grid, other) = At(grid, cell)}

\* the puzzle with every empty cell filled from the solution
FilledFrom(p, sol) ==
    [row \in DOMAIN p |->
        [col \in DOMAIN p[row] |->
            IF p[row][col] = null THEN sol[row][col] ELSE p[row][col]]]

(***************************************************************************)
(* C1.  isValidMove(grid, row, col, v) returns false exactly when some     *)
(* cell other than (row, col) in the same row, column or block holds v,    *)
(* and whatever (row, col) itself holds does not change the result.        *)
(***************************************************************************)
Thm_C1 ==
    pc = "isValidMove returned" =>
        LET cell == <<args[1], args[2]>>
            value == args[3]
        IN  /\ (result = FALSE) <=>
                  \E other \in Peers(Size(callBoard), cell) :
                      At(callBoard, other) = value
            /\ \A content \in Symbols(Size(callBoard)) \cup {null} :
                  isValidMove(SetCell(callBoard, cell[1], cell[2], content),
                              cell[1], cell[2], value) = result

\* a move is found valid although the cell itself already holds the value
Wit_C1 ==
    /\ pc = "isValidMove returned"
    /\ result = TRUE
    /\ callBoard[args[1]][args[2]] = args[3]
    /\ edits = MaxEdits

(***************************************************************************)
(* C2 as stated.  getConflicts returns the empty list for an empty cell;   *)
(* otherwise the other cells of the row, column or block that hold the     *)
(* cell's value, plus the cell itself, each coordinate once.               *)
(***************************************************************************)
Orig_C2 ==
    pc = "getConflicts returned" =>
        LET cell == <<args[1], args[2]>>
        IN  IF At(callBoard, cell) = null THEN result = <<>>
            ELSE /\ Range(result) = SameValuedPeers(callBoard, cell) \cup {cell}
                 /\ NoDuplicates(result)

(***************************************************************************)
(* C2 amended.  getConflicts returns the empty list for an empty cell and  *)
(* for a filled cell whose value no other cell of its row, column or block *)
(* holds; otherwise it returns those other cells plus the cell itself,     *)
(* each coordinate once.                                                   *)
(***************************************************************************)
Thm_C2 ==
    pc = "getConflicts returned" =>
        LET cell == <<args[1], args[2]>>
        IN  IF At(callBoard, cell) = null \/ SameValuedPeers(callBoard, cell) = {}
            THEN result = <<>>
            ELSE /\ Range(result) = SameValuedPeers(callBoard, cell) \cup {cell}
                 /\ NoDuplicates(result)

\* a conflicting cell that shares both its row and its block with the cell is
\* pushed twice by the code and reported once
Wit_C2 ==
    /\ pc = "getConflicts returned"
    /\ Len(result) >= 3
    /\ \E other \in Range(result) :
          /\ other # <<args[1], args[2]>>
          /\ other[1] = args[1]
          /\ SameBlock(Size(callBoard), other, <<args[1], args[2]>>)

(***************************************************************************)
(* C3.  Conflict symmetry: if a cell B other than A is in getConflicts of  *)
(* A, then A is in getConflicts of B, and both results hold both A and B.  *)
(***************************************************************************)
Thm_C3 ==
    pc = "getConflicts returned" =>
        LET a == <<args[1], args[2]>>
        IN  \A b \in Range(result) \ {a} :
                /\ {a, b} \subseteq Range(result)
                /\ {a, b} \subseteq Range(getConflicts(callBoard, b[1], b[2]))

Wit_C3 ==
    /\ pc = "getConflicts returned"
    /\ \E b \in Range(result) :
          /\ b[1] # args[1]
          /\ b[2] # args[2]

(***************************************************************************)
(* C4.  isSolved returns true exactly when every cell is filled and        *)
(* getConflicts is empty for every cell, which is exactly when every row,  *)
(* column and block holds each symbol once.                                *)
(***************************************************************************)
Thm_C4 ==
    pc = "isSolved returned" =>
        /\ result <=>
              /\ EmptyCells(callBoard) = {}
              /\ \A cell \in Cells(Size(callBoard)) :
                    getConflicts(callBoard, cell[1], cell[2]) = <<>>
        /\ result <=> IsSolution(callBoard)

\* a board that the caller edited and that is solved again
Wit_C4 ==
    /\ pc = "isSolved returned"
    /\ result = TRUE
    /\ edits = MaxEdits

(***************************************************************************)
(* C5.  On a board where every row, column and block holds each symbol     *)
(* once, getConflicts is empty for every cell.                             *)
(***************************************************************************)
Thm_C5 ==
    (pc = "getConflicts returned" /\ IsSolution(callBoard)) => result = <<>>

Wit_C5 ==
    /\ pc = "getConflicts returned"
    /\ IsSolution(callBoard)
    /\ result = <<>>

(***************************************************************************)
(* C6.  Every board generateSolvedBoard returns is fully filled and holds  *)
(* each symbol once in every row, column and block.                        *)
(***************************************************************************)
Thm_C6 ==
    pc = "generateSolvedBoard returned" =>
        /\ EmptyCells(result) = {}
        /\ IsSolution(result)

\* a board returned by a search whose shuffles did not follow HEX_VALUES
Wit_C6 ==
    /\ pc = "generateSolvedBoard returned"
    /\ result[0][0] # HEX_VALUES[1]
    /\ result[1][0] # HEX_VALUES[2]

(***************************************************************************)
(* C7.  For every difficulty, every filled cell of the returned puzzle     *)
(* holds the solution's value, and the puzzle with its empty cells filled  *)
(* from the solution is solved.                                            *)
(***************************************************************************)
Thm_C7 ==
    pc = "generatePuzzle returned" =>
        /\ \A cell \in Cells(Size(puzzle)) :
              At(puzzle, cell) # null => At(puzzle, cell) = At(solution, cell)
        /\ isSolved(FilledFrom(puzzle, solution))

\* a puzzle returned after phase 3 has put cells back
Wit_C7 ==
    /\ pc = "generatePuzzle returned"
    /\ difficulty = "hard"
    /\ Cardinality(EmptyCells(puzzle)) < removedCells

(***************************************************************************)
(* C8 as stated.  Every puzzle generatePuzzle returns for easy, medium or  *)
(* hard has exactly one completion.                                        *)
(***************************************************************************)
Orig_C8 ==
    (pc = "generatePuzzle returned" /\ difficulty # "test")
        => NumCompletions(puzzle) = 1

(***************************************************************************)
(* C9.  On a conflict-free board with at least one empty cell,             *)
(* hasUniqueSolution returns true exactly when the board has one           *)
(* completion: false when it has none and when it has two or more.         *)
(***************************************************************************)
Thm_C9 ==
    (/\ pc = "hasUniqueSolution returned"
     /\ ConflictFree(callBoard)
     /\ EmptyCells(callBoard) # {})
        => (result <=> NumCompletions(callBoard) = 1)

\* a conflict-free board that cannot be completed
Wit_C9 ==
    /\ pc = "hasUniqueSolution returned"
    /\ ConflictFree(callBoard)
    /\ EmptyCells(callBoard) # {}
    /\ NumCompletions(callBoard) = 0
    /\ result = FALSE

(***************************************************************************)
(* C10 as stated.  On a conflict-free board countSolutions(board, cap)     *)
(* returns the smaller of the number of completions and cap.               *)
(***************************************************************************)
Orig_C10 ==
    (pc = "countSolutions returned" /\ ConflictFree(callBoard))
        => result = Min(NumCompletions(callBoard), args[1])

(***************************************************************************)
(* C11.  generatePuzzle('test') returns a puzzle that differs from the     *)
(* solution in exactly 2 cells, both empty, and for each of them the       *)
(* solution's value is a value isValidMove accepts on the puzzle.          *)
(***************************************************************************)
Thm_C11 ==
    (pc = "generatePuzzle returned" /\ difficulty = "test") =>
        LET cleared == {cell \in Cells(Size(puzzle)) :
                           At(puzzle, cell) # At(solution, cell)}
        IN  /\ Cardinality(cleared) = 2
            /\ \A cell \in cleared :
                  /\ At(puzzle, cell) = null
                  /\ isValidMove(puzzle, cell[1], cell[2], At(solution, cell))

\* a test puzzle whose two cleared cells lie in one row and one block
Wit_C11 ==
    /\ pc = "generatePuzzle returned"
    /\ difficulty = "test"
    /\ puzzle[0][0] = null
    /\ puzzle[0][1] = null

\* the number of cells of the whole grid that hold a symbol
Occurrences(grid, symbol) ==
    Cardinality({cell \in Cells(Size(grid)) : At(grid, cell) = symbol})

(***************************************************************************)
(* C12.  getValueCompletionStats returns, for each symbol of the alphabet  *)
(* and for nothing else, filled equal to the number of cells holding the   *)
(* symbol, total equal to the side of the board (16), and percentage equal *)
(* to 100 * filled / total; empty cells and foreign values are not counted.*)
(***************************************************************************)
Thm_C12 ==
    pc = "getValueCompletionStats returned" =>
        /\ DOMAIN result = Symbols(Size(callBoard))
        /\ \A symbol \in Symbols(Size(callBoard)) :
              /\ result[symbol].filled = Occurrences(callBoard, symbol)
              /\ result[symbol].total = Size(callBoard)
              /\ result[symbol].percentage
                     = (100 * 100 * result[symbol].filled) \div result[symbol].total

\* a board with an empty cell and a foreign value
Wit_C12 ==
    /\ pc = "getValueCompletionStats returned"
    /\ EmptyCells(callBoard) # {}
    /\ \E cell \in Cells(Size(callBoard)) :
          At(callBoard, cell) \notin Symbols(Size(callBoard)) \cup {null}
    /\ \E symbol \in DOMAIN result : result[symbol].filled = Size(callBoard)

(***************************************************************************)
(* C13.  getNextValueToTackle selects, among the symbols below 100         *)
(* percent, the one with the highest percentage, the first in the order of *)
(* HEX_VALUES when several share it; a symbol at 100 percent or above is   *)
(* never selected.                                                         *)
(***************************************************************************)
Thm_C13 ==
    pc = "getNextValueToTackle returned" =>
        LET n == Size(callBoard)
            below == {symbol \in Symbols(n) : Occurrences(callBoard, symbol) < n}
        IN  IF below = {} THEN result.value = null
            ELSE /\ result.value \in below
                 /\ \A other \in below :
                       /\ Occurrences(callBoard, other)
                              <= Occurrences(callBoard, result.value)
                       /\ Occurrences(callBoard, other)
                              = Occurrences(callBoard, result.value)
                          => HexIndex(result.value) <= HexIndex(other)

\* the first symbol is above 100 percent and the next two share the highest
\* percentage below 100
Wit_C13 ==
    /\ pc = "getNextValueToTackle returned"
    /\ result.value = HEX_VALUES[2]
    /\ Occurrences(callBoard, HEX_VALUES[1]) > Size(callBoard)
    /\ Occurrences(callBoard, HEX_VALUES[3]) = Occurrences(callBoard, HEX_VALUES[2])

(***************************************************************************)
(* C14.  On the all-empty grid getNextValueToTackle returns a value with   *)
(* percentage 0 and remaining equal to the side (16); on a solved grid it  *)
(* returns the value null with remaining 0; whenever a value is chosen,    *)
(* remaining is the side minus the value's count and lies in 1..side.      *)
(***************************************************************************)
Thm_C14 ==
    pc = "getNextValueToTackle returned" =>
        LET n == Size(callBoard)
        IN  /\ callBoard = EmptyBoard(n) =>
                  /\ result.value # null
                  /\ result.percentage = 0
                  /\ result.remaining = n
            /\ IsSolution(callBoard) =>
                  /\ result.value = null
                  /\ result.remaining = 0
            /\ result.value # null =>
                  /\ result.remaining = n - Occurrences(callBoard, result.value)
                  /\ result.remaining \in 1..n

Wit_C14 ==
    /\ pc = "getNextValueToTackle returned"
    /\ callBoard = EmptyBoard(Size(callBoard))
    /\ result.remaining = Size(callBoard)

\* the row arrays of a board object
RowsOf(ref) == {ref[row] : row \in DOMAIN ref}

(***************************************************************************)
(* C15.  isValidMove, getConflicts, isSolved, getValueCompletionStats,     *)
(* getNextValueToTackle, getHint, solvePuzzle, countSolutions and          *)
(* countSolutionsLimited leave the board objects passed to them as they    *)
(* were, and the solution of generatePuzzle shares no row with the puzzle: *)
(* whatever is written into the puzzle, the solution stays fully filled.   *)
(***************************************************************************)
Thm_C15 ==
    /\ pc \in {fn \o " returned" : fn \in ReadOnlyFunctions}
              \cup {"getHint returned", "solvePuzzle returned",
                    "countSolutions returned", "countSolutionsLimited returned"}
          => Deref(heap, boardRef) = callBoard
    /\ pc = "getHint returned" => Deref(heap, solutionRef) = solution
    /\ pc \in {"generatePuzzle carving", "generatePuzzle returned"}
          => /\ RowsOf(solutionRef) \cap RowsOf(boardRef) = {}
             /\ Deref(heap, solutionRef) = solution
             /\ EmptyCells(Deref(heap, solutionRef)) = {}
             /\ Deref(heap, boardRef) = puzzle

\* countSolutions left early and its working copy holds a board other than
\* the caller's
Wit_C15 ==
    /\ pc = "countSolutions returned"
    /\ \E id \in DOMAIN heap \ RowsOf(boardRef) :
          \A col \in DOMAIN heap[id] : heap[id][col] # null
    /\ EmptyCells(callBoard) # {}
    /\ Deref(heap, boardRef) = callBoard

(***************************************************************************)
(* C16 as stated.  The puzzle generatePuzzle returns has 60 empty cells    *)
(* for easy, 140 for medium and 180 for hard, out of 256 (taken in         *)
(* proportion on a smaller board).                                         *)
(***************************************************************************)
Orig_C16 ==
    (pc = "generatePuzzle returned" /\ difficulty \in {"easy", "medium", "hard"}) =>
        Cardinality(EmptyCells(puzzle)) =
            Scaled(CASE difficulty = "easy" -> 60
                     [] difficulty = "medium" -> 140
                     [] difficulty = "hard" -> 180,
                   Size(puzzle))

(***************************************************************************)
(* C17 as stated.  When the puzzle still fails the exact uniqueness check  *)
(* after the restoration phase, the result generatePuzzle returns carries  *)
(* a status next to the puzzle and the solution; a result without one is   *)
(* returned only for puzzles that pass the exact check.                    *)
(***************************************************************************)
Orig_C17 ==
    (/\ pc = "generatePuzzle returned"
     /\ difficulty # "test"
     /\ DOMAIN generatePuzzleResult = {"puzzle", "solution"})
        => hasUniqueSolution(generatePuzzleResult.puzzle)

\* the cell across the centre of the board
Partner(n, cell) == <<n - 1 - cell[1], n - 1 - cell[2]>>

\* phase 1 has just returned and phase 2 has not tried a cell yet
AfterPhase1 == pc = "performGuidedRemoval" /\ attempts = 0

(***************************************************************************)
(* C18.  Phase 1 clears cells only as whole point-symmetric pairs, so      *)
(* during and after it a cell is empty iff its partner is; it stops as     *)
(* soon as the cleared count reaches min(0.6 * target, cap); on the 16x16  *)
(* board it clears exactly 36, 60 and 100 cells for the targets 60, 100    *)
(* and 180, never more than min(0.6 * target, 100).                        *)
(***************************************************************************)
Thm_C18 ==
    /\ (pc = "performSymmetricRemoval" \/ AfterPhase1) =>
          LET n == Size(puzzle)
              target == targetEmptyCells(difficulty, n)
              limit == Min(6 * target, 10 * Scaled(100, n))
          IN  /\ \A cell \in Cells(n) :
                    At(puzzle, cell) = null <=> At(puzzle, Partner(n, cell)) = null
              /\ Cardinality(EmptyCells(puzzle)) = removedCells
              /\ removedCells > 0 => 10 * (removedCells - 2) < limit
              /\ AfterPhase1 =>
                    /\ 10 * removedCells >= limit
                    /\ removedCells = symmetricRemovalCount(
                           0, Cardinality(allSymmetricPairs(n)), target, n)
    /\ symmetricRemovalCount(0, 64, 60, 16) = 36
    /\ symmetricRemovalCount(0, 64, 100, 16) = 60
    /\ symmetricRemovalCount(0, 64, 180, 16) = 100
    /\ \A target \in {60, 100, 180} :
          10 * symmetricRemovalCount(0, 64, target, 16) <= Min(6 * target, 10 * 100)

\* phase 1 of a hard puzzle stopped at the cap although pairs were left
Wit_C18 ==
    /\ AfterPhase1
    /\ difficulty = "hard"
    /\ Cardinality(EmptyCells(puzzle)) = Scaled(100, Size(puzzle))
    /\ Cardinality(EmptyCells(puzzle)) < 2 * Cardinality(allSymmetricPairs(Size(puzzle)))

\* the attempts of phase 2 on which the claim says the check runs
checkDue(d, number) ==
    CASE d = "easy" -> number % 3 = 0
      [] d = "medium" -> number % 2 = 0
      [] d = "hard" -> TRUE

(***************************************************************************)
(* C19.  Every attempt of phase 2 takes one cell.  If the attempt's        *)
(* 1-based number is a multiple of 3 (easy), a multiple of 2 (medium) or   *)
(* any number (hard) and the depth-capped check fails for the puzzle       *)
(* without the cell, the cell keeps its value and the attempt is not       *)
(* counted as a removal; every other attempt leaves the cell empty and     *)
(* counts as one removal, whatever the check would have said.              *)
(***************************************************************************)
Thm_C19 ==
    [][(pc = "performGuidedRemoval" /\ attempts' = attempts + 1) =>
          LET tried == DOMAIN cellPriorities \ DOMAIN cellPriorities'
              cell == CHOOSE c \in tried : TRUE
              without == SetCell(puzzle, cell[1], cell[2], null)
              failed == /\ checkDue(difficulty, attempts')
                        /\ ~hasLimitedUniqueSolution(without)
          IN  /\ Cardinality(tried) = 1
              /\ At(puzzle, cell) # null
              /\ IF failed
                 THEN puzzle' = puzzle /\ guidedRemoved' = guidedRemoved
                 ELSE puzzle' = without /\ guidedRemoved' = guidedRemoved + 1]_vars

\* an easy call whose third attempt was checked and put its cell back, and
\* whose unchecked fourth attempt left a puzzle the check does not accept
Wit_C19 ==
    /\ pc = "performGuidedRemoval"
    /\ difficulty = "easy"
    /\ attempts = 4
    /\ guidedRemoved = 3
    /\ ~hasLimitedUniqueSolution(puzzle)

\* the points of generatePuzzle at which the puzzle is being carved or is done
Carving ==
    /\ difficulty \in {"easy", "medium", "hard"}
    /\ pc \in {"performSymmetricRemoval", "performGuidedRemoval",
               "restoreForUniqueness", "generatePuzzle returned"}

(***************************************************************************)
(* C20.  With remaining = target minus the number of cells phase 1         *)
(* cleared, phase 2 never makes more than remaining * 2 attempts           *)
(* (remaining * 4 for hard) and never removes more than remaining cells;   *)
(* the empty cells of the puzzle are the cells the two phases removed, so  *)
(* their number never exceeds the target of the difficulty.                *)
(***************************************************************************)
Thm_C20 ==
    Carving =>
        LET target == targetEmptyCells(difficulty, Size(puzzle))
            remaining == target - removedCells
        IN  /\ pc = "performGuidedRemoval" =>
                  /\ attempts <= remaining * (IF difficulty = "hard" THEN 4 ELSE 2)
                  /\ guidedRemoved <= remaining
                  /\ guidedRemoved <= attempts
                  /\ Cardinality(EmptyCells(puzzle)) = removedCells + guidedRemoved
            /\ Cardinality(EmptyCells(puzzle)) <= target

\* phase 2 has removed all it was asked to although a check put a cell back
Wit_C20 ==
    /\ Carving
    /\ pc = "performGuidedRemoval"
    /\ guidedRemoved = targetEmptyCells(difficulty, Size(puzzle)) - removedCells
    /\ guidedRemoved < attempts
    /\ Cardinality(EmptyCells(puzzle)) = targetEmptyCells(difficulty, Size(puzzle))

\* the cells in which two grids differ
Changed(before, after) ==
    {cell \in Cells(Size(before)) : At(before, cell) # At(after, cell)}

\* generateOptimizedUniquePuzzle is in phase 1 or 2
InRemoval == pc \in {"performSymmetricRemoval", "performGuidedRemoval"}

(***************************************************************************)
(* C21.  When phases 1 and 2 leave a puzzle that passes hasUniqueSolution, *)
(* the puzzle is returned as it is.  Otherwise phase 3 runs: each of its   *)
(* steps is taken only when hasUniqueSolution fails for the puzzle as it   *)
(* is then, and fills exactly one empty cell with the solution's value;    *)
(* phase 3 ends only when hasUniqueSolution passes or when it has restored *)
(* min(number of empty cells at its start, cap) cells, the cap being 20 on *)
(* the 16x16 board, and it never restores more cells than the cap.         *)
(***************************************************************************)
Thm_C21 ==
    /\ [][/\ (InRemoval /\ pc' = "generatePuzzle returned") =>
                 hasUniqueSolution(puzzle) /\ puzzle' = puzzle
          /\ (InRemoval /\ pc' = "restoreForUniqueness") =>
                 ~hasUniqueSolution(puzzle) /\ puzzle' = puzzle /\ attempts' = 0
          /\ (pc = "restoreForUniqueness" /\ pc' = pc) =>
                 /\ ~hasUniqueSolution(puzzle)
                 /\ attempts' = attempts + 1
                 /\ \E cell \in EmptyCells(puzzle) :
                       /\ Changed(puzzle, puzzle') = {cell}
                       /\ At(puzzle', cell) = At(solution, cell)
          /\ (pc = "restoreForUniqueness" /\ pc' # pc) =>
                 /\ pc' = "generatePuzzle returned"
                 /\ puzzle' = puzzle
                 /\ \/ hasUniqueSolution(puzzle)
                    \/ attempts = Min(Cardinality(EmptyCells(puzzle)) + attempts,
                                      ScaledUp(20, Size(puzzle)))]_vars
    /\ [](pc = "restoreForUniqueness" =>
             /\ attempts <= ScaledUp(20, Size(puzzle))
             /\ removedCells - Cardinality(EmptyCells(puzzle)) = attempts)
    /\ []((pc = "generatePuzzle returned" /\ difficulty # "test") =>
             removedCells - Cardinality(EmptyCells(puzzle)) \in 0..ScaledUp(20, Size(puzzle)))

\* phase 3 has restored one cell and stopped below its cap because the puzzle
\* then passed hasUniqueSolution
Wit_C21 ==
    /\ pc = "generatePuzzle returned"
    /\ difficulty \in {"medium", "hard"}
    /\ removedCells - Cardinality(EmptyCells(puzzle)) = 1
    /\ ScaledUp(20, Size(puzzle)) > 1

(***************************************************************************)
(* C22 as stated.  Whenever phase 2 runs hasLimitedUniqueSolution on the   *)
(* puzzle without the cell it tries, the result is true if the puzzle has  *)
(* exactly one completion, and a puzzle for which it is true has at least  *)
(* one completion: the check never rejects a uniquely solvable grid.       *)
(***************************************************************************)
Orig_C22 ==
    [][(/\ pc = "performGuidedRemoval"
        /\ attempts' = attempts + 1
        /\ shouldValidate(difficulty, attempts')) =>
          LET cell == CHOOSE c \in DOMAIN cellPriorities \ DOMAIN cellPriorities' : TRUE
              without == SetCell(puzzle, cell[1], cell[2], null)
          IN  ConflictFree(without) =>
                  /\ NumCompletions(without) = 1 => hasLimitedUniqueSolution(without)
                  /\ hasLimitedUniqueSolution(without) => NumCompletions(without) >= 1]_vars

(***************************************************************************)
(* C23 as stated.  The grid createValidPattern returns has no conflicting  *)
(* cell: every row, column and block holds each symbol exactly once.       *)
(***************************************************************************)
Orig_C23 ==
    pc = "createValidPattern returned" =>
        /\ \A cell \in Cells(Size(result)) :
              Len(getConflicts(result, cell[1], cell[2])) = 0
        /\ IsSolution(result)

(***************************************************************************)
(* C24.  Started on the empty grid, the search of generateSolvedBoard      *)
(* ends for every order of the candidates: it returns true with every cell *)
(* filled, the outermost call never returns false, and the board returned  *)
(* is the board of the search and not the fallback pattern.                *)
(***************************************************************************)
Thm_C24 ==
    /\ <>(pc = "generateSolvedBoard returned")
    /\ [](pc # "unsolved")
    /\ [](pc = "solved" => EmptyCells(board) = {} /\ stack = <<>>)
    /\ [](pc = "generateSolvedBoard returned" =>
             result = board /\ EmptyCells(result) = {})

\* the search has returned true with candidate orders other than HEX_VALUES
Wit_C24 ==
    /\ pc = "solved"
    /\ EmptyCells(board) = {}
    /\ board[0][0] = HEX_VALUES[N]
    /\ board[1][0] = HEX_VALUES[N - 1]

(***************************************************************************)
(* C25.  On a conflict-free grid whose number of empty cells is at most    *)
(* the depth cap, countSolutionsLimited(grid, 2, cap) returns what         *)
(* countSolutions(grid, 2) returns, for every cap of at least 1 and so for *)
(* the cap the code passes (50 on the 16x16 board); hence on such a grid   *)
(* hasLimitedUniqueSolution and hasUniqueSolution agree, which is to say   *)
(* that the two differ only on grids with more empty cells than the cap.   *)
(***************************************************************************)
Thm_C25 ==
    /\ (/\ pc = "countSolutionsLimited returned"
        /\ ConflictFree(callBoard)
        /\ args[2] >= 1
        /\ Cardinality(EmptyCells(callBoard)) <= args[2])
           => result = countSolutions(callBoard, args[1])
    /\ (/\ pc = "hasLimitedUniqueSolution returned"
        /\ ConflictFree(callBoard)
        /\ Cardinality(EmptyCells(callBoard)) <= Scaled(50, Size(callBoard)))
           => result = hasUniqueSolution(callBoard)

\* a grid with two completions and exactly as many empty cells as the cap
Wit_C25 ==
    /\ pc = "countSolutionsLimited returned"
    /\ ConflictFree(callBoard)
    /\ Cardinality(EmptyCells(callBoard)) = args[2]
    /\ NumCompletions(callBoard) = 2
    /\ result >= 2

(***************************************************************************)
(* C26.  In phase 2 the puzzle's filled cells are cells of a valid         *)
(* solution, and calculateCellRemovalPriority without its random term is   *)
(* 47 for every filled cell: the value is counted once in the row, once in *)
(* the column and once in the block.  All cells of the priority list hold  *)
(* 47, so each of them can come first in the sorted list: the order is     *)
(* decided by the random term alone.                                       *)
(***************************************************************************)
Thm_C26 ==
    pc \in {"performGuidedRemoval", "performGuidedRemoval returned"} =>
        /\ \E full \in {FilledFrom(puzzle, board)} :
              /\ IsSolution(full)
              /\ \A cell \in Cells(Size(puzzle)) :
                    At(puzzle, cell) # null => At(puzzle, cell) = At(full, cell)
        /\ \A cell \in Cells(Size(puzzle)) \ EmptyCells(puzzle) :
              removalPriority(puzzle, cell[1], cell[2]) = 47
        /\ \A cell \in DOMAIN cellPriorities :
              /\ cellPriorities[cell] = 47
              /\ canSortFirst(cellPriorities, cell)

\* a cell still in the list whose row, column and block all have empty cells
Wit_C26 ==
    /\ pc = "performGuidedRemoval"
    /\ attempts >= 2
    /\ \E cell \in DOMAIN cellPriorities :
          /\ \E other \in EmptyCells(puzzle) : other[1] = cell[1]
          /\ \E other \in EmptyCells(puzzle) : other[2] = cell[2]
          /\ \E other \in EmptyCells(puzzle) :
                other[1] # cell[1] /\ other[2] # cell[2]
                /\ SameBlock(Size(puzzle), cell, other)

(***************************************************************************)
(* C27.  For easy and medium, phase 2 ends with exactly the target number  *)
(* of empty cells whatever the checks say: from then on the count of       *)
(* removed cells is the target, phase 3 only puts cells back, and the      *)
(* returned puzzle has between target minus the restore cap (20) and       *)
(* target empty cells.  With the numbers of the 16x16 board the attempts   *)
(* that skip the check supply the 24 (easy) and 40 (medium) removals left  *)
(* after the 36 and 60 of phase 1 even when every check fails.             *)
(***************************************************************************)
Thm_C27 ==
    /\ (/\ difficulty \in {"easy", "medium"}
        /\ pc \in {"restoreForUniqueness", "generatePuzzle returned"}) =>
          LET target == targetEmptyCells(difficulty, Size(puzzle))
              empty == Cardinality(EmptyCells(puzzle))
          IN  /\ removedCells = target
              /\ pc = "restoreForUniqueness" => empty + attempts = target
              /\ empty <= target
              /\ empty >= target - ScaledUp(20, Size(puzzle))
    /\ performGuidedRemovalAllFail("easy", 60 - 36, 256 - 36, 0, 0) = 60 - 36
    /\ performGuidedRemovalAllFail("medium", 100 - 60, 256 - 60, 0, 0) = 100 - 60

\* a medium call of phase 2 whose second attempt was checked and failed and
\* whose third attempt supplied the last removal
Wit_C27 ==
    /\ pc = "performGuidedRemoval"
    /\ difficulty = "medium"
    /\ attempts = 3
    /\ guidedRemoved = 2
    /\ removedCells + guidedRemoved = targetEmptyCells("medium", Size(puzzle))
    /\ Cardinality(EmptyCells(puzzle)) = targetEmptyCells("medium", Size(puzzle))

(***************************************************************************)
(* C28.  Every puzzle generatePuzzle('test') returns has exactly one       *)
(* completion, the solution returned with it: for each empty cell of the   *)
(* puzzle exactly one symbol passes isValidMove, the solution's.           *)
(***************************************************************************)
Thm_C28 ==
    (pc = "generatePuzzle returned" /\ difficulty = "test") =>
        /\ IsSolution(solution)
        /\ NumCompletions(puzzle) = 1
        /\ IsSolution(FilledFrom(puzzle, solution))
        /\ \A cell \in EmptyCells(puzzle) :
              {value \in Symbols(Size(puzzle)) :
                  isValidMove(puzzle, cell[1], cell[2], value)}
                  = {At(solution, cell)}

\* a test puzzle whose two empty cells share a block but no row or column
Wit_C28 ==
    /\ pc = "generatePuzzle returned"
    /\ difficulty = "test"
    /\ EmptyCells(puzzle) = {<<0, 0>>, <<1, 1>>}

(***************************************************************************)
(* C29.  In a started game, whatever cells the player selects, whatever    *)
(* arrow keys, values and clears follow, every cell that the initial       *)
(* puzzle fills holds its initial value on the player's board, and the     *)
(* selected cell is never a cell that the initial puzzle fills.            *)
(***************************************************************************)
Thm_C29 ==
    pc = "startNewGame returned" =>
        /\ initialBoard = puzzle
        /\ \A cell \in Cells(Size(initialBoard)) :
              At(initialBoard, cell) # null => At(appBoard, cell) = At(initialBoard, cell)
        /\ selectedCell # noCell => At(initialBoard, selectedCell) = null

\* The player has used every move, the board differs from the initial puzzle,
\* and a cell is selected that has a pre-filled cell next to it in the
\* direction of some arrow key.
Wit_C29 ==
    /\ pc = "startNewGame returned"
    /\ edits = MaxMoves
    /\ appBoard # initialBoard
    /\ selectedCell # noCell
    /\ \E key \in ArrowKeys :
          At(initialBoard, arrowStep(key, selectedCell, Size(initialBoard))) # null

(***************************************************************************)
(* C30.  When an input move solves the board, the score recorded for the   *)
(* win modal (finalScore, which the timeout callback puts into winData)    *)
(* is the total score after that move: the total before the move plus the  *)
(* score of the move plus the completion bonus.                            *)
(***************************************************************************)
Orig_C30 ==
    [][(gameState' = "won" /\ Len(timeouts') > Len(timeouts)) =>
            /\ totalScore' = totalScore + moveScore + completionBonus
            /\ timeouts'[Len(timeouts')] = totalScore']_vars

====
